---- MODULE Spec2Model ----
(***************************************************************************)
(* A model of the data-migration backends of the repository:               *)
(*   - the HDF5 array backend            (src/into/backends/h5py.py)       *)
(*   - the hierarchical labeled-table backend                              *)
(*                                       (src/into/backends/hdfstore.py)   *)
(* Each backend has its own specification over the shared variables; the   *)
(* variables of the other backends stay at their idle values.              *)
(***************************************************************************)
EXTENDS Integers, Sequences, FiniteSets, TLC

VARIABLES
    dset,     \* h5py: the dataset behind the handle (shape, maxshape, rows)
    fopen,    \* h5py: TRUE while the owning h5py.File id is valid
    hfile,    \* hdfstore: the container file at `path` and its nodes
    store,    \* hdfstore: TRUE while the pandas store handle is open
    tab,      \* hdfstore: the table handle the caller holds
    h5nodes,  \* h5py creation: the nodes of the HDF5 file, by datapath
    cseq,     \* h5py/hdfstore: the chunked-sequence value held by the caller
    s3,       \* aws: credential sources, memoized connections, buckets, files
    dsk,      \* dask: the task graph the caller holds
    call      \* the last call made by the caller: operation, inputs, outcome

vars == <<dset, fopen, hfile, store, tab, h5nodes, cseq, s3, dsk, call>>

h5vars == <<dset, fopen>>
storevars == <<hfile, store, tab>>
createvars == <<h5nodes>>
awsvars == <<s3>>
daskvars == <<dsk>>

\* what the actions of one backend leave alone
noth5 == <<storevars, createvars, awsvars, daskvars>>
notstore == <<h5vars, createvars, awsvars, daskvars>>
notcreate == <<h5vars, storevars, cseq, awsvars, daskvars>>
notaws == <<h5vars, storevars, createvars, cseq, daskvars>>
notdask == <<h5vars, storevars, createvars, cseq, awsvars>>

(***************************************************************************)
(* Bounds of the model.                                                    *)
(***************************************************************************)
MaxRows == 4      \* a dataset / table never holds more rows than this
MaxX == 2         \* rows of one appended array
MaxChunkRows == 1 \* rows of one chunk of a chunked sequence
MaxChunks == 3    \* chunks in one chunked sequence

Values == {1, 2}  \* element values written by callers
Fill == 0         \* HDF5 default fill value of rows that were never written

Min(a, b) == IF a < b THEN a ELSE b

RECURSIVE SumSeq(_)
SumSeq(s) == IF s = <<>> THEN 0 ELSE Head(s) + SumSeq(Tail(s))

RECURSIVE ProdSeq(_)
ProdSeq(s) == IF s = <<>> THEN 1 ELSE Head(s) * ProdSeq(Tail(s))

(***************************************************************************)
(* numpy arrays: a shape and the rows along the leading dimension.  A row  *)
(* of a 1-d array is an element, a row of a 2-d array a tuple of elements. *)
(***************************************************************************)
Arr(shape, data) == [shape |-> shape, data |-> data]

\* len(x): the leading extent
PyLen(x) == x.shape[1]

\* all sequences over S of length exactly n
SeqN(S, n) == [1..n -> S]

\* rows of the 2-d arrays callers build
Rows2 == {<<1, 2>>, <<2, 1>>}
(***************************************************************************)
(* h5py.Dataset as the backend uses it: shape, the maximum leading extent  *)
(* (unlimited = maxshape[0] is None) and the stored rows.                  *)
(***************************************************************************)
Dataset(shape, unlimited, maxrows, data) ==
    [shape |-> shape, unlimited |-> unlimited, maxrows |-> maxrows, data |-> data]

\* the row a resize adds: never written, so it reads back as the fill value
FillRow(shape) ==
    IF Len(shape) = 1 THEN Fill ELSE [j \in 1..shape[2] |-> Fill]

\* dset.resize(shape): the leading extent becomes n; rows kept, new rows
\* unwritten.  HDF5 refuses an extent above the dataset's maxshape.
Resize(d, n) ==
    IF ~d.unlimited /\ n > d.maxrows
    THEN [dset |-> d, err |-> "ValueError"]
    ELSE [dset |-> [d EXCEPT !.shape = <<n>> \o Tail(d.shape),
                             !.data = [i \in 1..n |->
                                         IF i <= Len(d.data) THEN d.data[i]
                                         ELSE FillRow(d.shape)]],
          err |-> "ok"]

\* h5py's broadcast rule for a write: every extent of the source is 1 or
\* equals the extent of the selection it is written to
CanBroadcast(target, count) ==
    /\ Len(target) = Len(count)
    /\ \A i \in 1..Len(count) : target[i] = 1 \/ target[i] = count[i]

\* the row written at position r of a selection of k rows
BroadcastRow(x, r, shape) ==
    LET src == x.data[IF PyLen(x) = 1 THEN 1 ELSE r] IN
    IF Len(shape) = 1 THEN src
    ELSE IF x.shape[2] = 1 THEN [j \in 1..shape[2] |-> src[1]] ELSE src

\* dset[-len(x):] = x     (-0 is 0: with len(x) = 0 the slice is the whole
\* dataset).  An empty selection writes nothing; otherwise the source must
\* broadcast to the selection or h5py raises TypeError.
SetTail(d, x) ==
    LET n     == d.shape[1]
        start == IF PyLen(x) = 0 THEN 0
                 ELSE IF PyLen(x) >= n THEN 0 ELSE n - PyLen(x)
        count == <<n - start>> \o Tail(d.shape)
    IN  IF ProdSeq(count) = 0 THEN [dset |-> d, err |-> "ok"]
        ELSE IF ~CanBroadcast(x.shape, count)
        THEN [dset |-> d, err |-> "TypeError"]
        ELSE [dset |-> [d EXCEPT !.data = [i \in 1..n |->
                                   IF i <= start THEN d.data[i]
                                   ELSE BroadcastRow(x, i - start, d.shape)]],
              err |-> "ok"]

\* `not sum(x.shape)`: the guard append_h5py uses for "x is empty"
EmptyGuard(x) == SumSeq(x.shape) = 0

\* append_h5py(dset, x): returns the dataset after the call and the error
\* that left the call, "ok" when it returned
AppendH5py(d, x) ==
    IF EmptyGuard(x) THEN [dset |-> d, err |-> "ok"]
    ELSE LET r == Resize(d, d.shape[1] + PyLen(x)) IN
         IF r.err # "ok" THEN r ELSE SetTail(r.dset, x)

\* a chunk loop that does not fail fast: a failing chunk is skipped and the
\* loop goes on with the chunks after it
RECURSIVE AppendChunksSkipping(_, _)
AppendChunksSkipping(d, c) ==
    IF c = <<>> THEN [dset |-> d, err |-> "ok", applied |-> 0]
    ELSE LET r    == AppendH5py(d, Head(c))
             rest == AppendChunksSkipping(r.dset, Tail(c))
         IN  IF r.err # "ok"
             THEN [dset |-> rest.dset, err |-> r.err, applied |-> 0]
             ELSE [rest EXCEPT !.applied = @ + 1]

\* append_h5py_dset_chunks(dset, c): `for chunk in c: append_h5py(dset, chunk)`.
\* applied counts the chunks whose append returned; the first error leaves
\* the loop at once.
RECURSIVE AppendH5pyDsetChunks(_, _)
AppendH5pyDsetChunks(d, c) ==
    IF c = <<>> THEN [dset |-> d, err |-> "ok", applied |-> 0]
    ELSE LET r == AppendH5py(d, Head(c)) IN
         IF r.err # "ok"
         THEN [dset |-> r.dset, err |-> r.err, applied |-> 0]
         ELSE LET rest == AppendH5pyDsetChunks(r.dset, Tail(c)) IN
              [rest EXCEPT !.applied = @ + 1]
(***************************************************************************)
(* Conversions of a dataset.                                               *)
(***************************************************************************)
GuardLimit == 1000000000      \* 1e9 elements

\* Python evaluates  fmt % dset.size / 1e9  left to right: the % formats the
\* size into a str, and a str divided by a float raises TypeError before
\* MemoryError is ever constructed
PyBinOpRaises(op, left, right) ==
    op = "/" /\ (left = "str" \/ right = "str")

PyTypeOfFormat(fmt, arg) == "str"

\* the exception that leaves the `raise MemoryError(...)` statement
GuardRaise ==
    IF PyBinOpRaises("/", PyTypeOfFormat("str", "int"), "float")
    THEN "TypeError" ELSE "MemoryError"

\* h5py_to_numpy(dset, force): size is dset.size; read is the number of
\* elements dset[:] has read when the call ends
H5pyToNumpy(size, force) ==
    IF size > GuardLimit
    THEN [err |-> GuardRaise, read |-> 0]
    ELSE [err |-> "ok", read |-> size]

\* a window that always reads from the first row of the dataset
SliceFromStart(d, lo, hi) ==
    LET n == Min(hi, d.shape[1]) - lo IN
    Arr(<<n>> \o Tail(d.shape), [k \in 1..n |-> d.data[k]])

\* t[i : i + chunksize] of a dataset with rows `data`
Slice(d, lo, hi) ==
    LET n == Min(hi, d.shape[1]) - lo IN
    Arr(<<n>> \o Tail(d.shape), [k \in 1..n |-> d.data[lo + k]])

\* h5py_to_numpy_iterator(t, chunksize): the chunks the generator yields
\* from 0-based row i on, when it runs to its end
RECURSIVE H5pyToNumpyIteratorFrom(_, _, _)
H5pyToNumpyIteratorFrom(d, chunksize, i) ==
    IF i >= d.shape[1] THEN <<>>
    ELSE <<Slice(d, i, i + chunksize)>>
         \o H5pyToNumpyIteratorFrom(d, chunksize, i + chunksize)

\* a chunksize as callers pass it, a whole number of rows or a float with a
\* fractional part: whole, or whole + 1/2
Number(whole, half) == [whole |-> whole, half |-> half]

\* int(chunksize) of a non-negative number drops the fractional part
PyInt(x) == x.whole

H5pyToNumpyIterator(d, chunksize) ==
    H5pyToNumpyIteratorFrom(d, PyInt(chunksize), 0)

(***************************************************************************)
(* The chunked-sequence value.  kind "generator": data is a generator      *)
(* object, which runs once; kind "factory": data is a zero-argument        *)
(* callable, invoked anew by every iteration.                              *)
(***************************************************************************)
NoChunks == [kind |-> "none"]

\* h5py_to_numpy_chunks(t, chunksize): wraps the generator object that the
\* call h5py_to_numpy_iterator(t, ...) returns, not yet started.  started:
\* the body has been entered and range(0, t.shape[0], chunksize) evaluated,
\* stop is its end and pos the next i; active: a traversal of the sequence
\* is under way and out holds the chunks it has received; moved: the
\* dataset was modified while the generator stood at its yield.
H5pyToNumpyChunks(chunksize) ==
    [kind |-> "generator", chunksize |-> chunksize, exhausted |-> FALSE,
     iterated |-> FALSE, changed |-> FALSE, active |-> FALSE,
     started |-> FALSE, stop |-> 0, pos |-> 0, out |-> <<>>, moved |-> FALSE,
     resumed |-> FALSE, node |-> ""]

\* next(it) on the generator of h5py_to_numpy_iterator: on the first call
\* chunksize = int(chunksize) and the range over the rows the dataset has
\* then are fixed; every call reads t[i : i + chunksize] from the dataset as
\* it is at that call and stops at the yield; past the end of the range the
\* generator returns (StopIteration) and stays finished
GeneratorNext(cs, d) ==
    LET stop == IF cs.started THEN cs.stop ELSE d.shape[1]
        pos  == IF cs.started THEN cs.pos ELSE 0
    IN  IF cs.exhausted \/ pos >= stop
        THEN [yield |-> FALSE, chunk |-> Arr(<<0>>, <<>>),
              cs |-> [cs EXCEPT !.started = TRUE, !.exhausted = TRUE]]
        ELSE [yield |-> TRUE, chunk |-> Slice(d, pos, pos + PyInt(cs.chunksize)),
              cs |-> [cs EXCEPT !.started = TRUE, !.stop = stop,
                                !.pos = pos + PyInt(cs.chunksize)]]

\* iter(c) on a chunked sequence: a traversal begins.  A generator object
\* is its own iterator: the traversal goes on where the generator stands
\* (resumed: it had been started before), and once it has run to the end
\* every later traversal receives nothing.  A callable is called, and the
\* traversal has a new iterator of its own.
ChunksIter(cs) ==
    IF cs.kind = "generator"
    THEN [cs EXCEPT !.active = TRUE, !.out = <<>>, !.resumed = cs.started]
    ELSE [cs EXCEPT !.active = TRUE, !.out = <<>>, !.resumed = FALSE,
                    !.started = FALSE, !.exhausted = FALSE, !.stop = 0,
                    !.pos = 0, !.moved = FALSE]

(***************************************************************************)
(* cleanup.  Closing a valid id closes it.  On an id that is already       *)
(* invalid the library call either raises or returns, depending on the     *)
(* library version: raises is that outcome.                                *)
(***************************************************************************)
LibClose(open, raises) ==
    [open |-> FALSE, err |-> IF ~open /\ raises THEN "ValueError" ELSE "ok"]

\* cleanup_file(f): try: f.close() except: pass
CleanupFile(open, raises) ==
    [open |-> LibClose(open, raises).open, err |-> "ok"]

\* cleanup_dataset(dset): dset.file.close(), no handler
CleanupDataset(open, raises) == LibClose(open, raises)
(***************************************************************************)
(* The container file of the hierarchical-table backend.  A node is absent,*)
(* a bare group or a table; ptype is the per-node pandas_type attribute.   *)
(***************************************************************************)
DataPaths == {"a", "b"}

Node(kind, ptype, cols, rows, autoindex, dirty, datacols) ==
    [kind |-> kind, ptype |-> ptype, cols |-> cols, rows |-> rows,
     autoindex |-> autoindex, dirty |-> dirty, datacols |-> datacols]

Absent == Node("absent", FALSE, "", <<>>, FALSE, FALSE, FALSE)

NoFile == [exists |-> FALSE, marker |-> FALSE, nodes |-> [p \in DataPaths |-> Absent]]

NoTable == [kind |-> "none", node |-> ""]

(***************************************************************************)
(* Creation of HDF5 datasets from a datashape (h5py.py).  A datashape is   *)
(* its sequence of dimensions, Var for an unbounded one; the measure is    *)
(* never a dimension.                                                      *)
(***************************************************************************)
Var == -1             \* datashape.var

H5Paths == {"/x"}

H5Node(kind, shape, maxshape, chunks) ==
    [kind |-> kind, shape |-> shape, maxshape |-> maxshape, chunks |-> chunks]

H5Absent == H5Node("absent", <<>>, "none", "none")

NoNodes == [p \in H5Paths |-> H5Absent]

\* s[1:] of a tuple, which is () for the empty tuple
PyTail(s) == IF s = <<>> THEN <<>> ELSE Tail(s)

\* is v an element of the sequence s
InSeq(v, s) == \E i \in 1..Len(s) : s[i] = v

\* a shape rule that looks for Var in list(ds)[2:] only, and so lets an
\* unbounded second dimension through
DshapeShapeFrom2(dims) ==
    IF ~InSeq(Var, dims)
    THEN [err |-> "ok", shape |-> dims]
    ELSE IF Len(dims) < 2 \/ ~InSeq(Var, Tail(Tail(dims)))
    THEN [err |-> "ok", shape |-> <<0>> \o [i \in 1..Len(dims) - 1 |->
                                              IF dims[i + 1] = Var THEN 0
                                              ELSE dims[i + 1]]]
    ELSE [err |-> "ValueError", shape |-> <<>>]

\* the shape dataset_from_dshape derives: list(ds) is the dimensions followed
\* by the measure, so `var not in list(ds)[1:]` looks at every dimension but
\* the outermost
DshapeShape(dims) ==
    IF ~InSeq(Var, dims)
    THEN [err |-> "ok", shape |-> dims]
    ELSE IF ~InSeq(Var, Tail(dims))
    THEN [err |-> "ok", shape |-> <<0>> \o Tail(dims)]
    ELSE [err |-> "ValueError", shape |-> <<>>]

\* a lookup that drops the caller's keyword and always takes the default
KwGetDefault(kw, key, default) == default

\* kwargs.get(key, default): kw[key] is "unset" when the caller gave none
KwGet(kw, key, default) == IF kw[key] = "unset" THEN default ELSE kw[key]

\* file.require_dataset(datapath, shape=..., **kwargs2): creates the dataset
\* when the path is free, and then a dataset without dimensions takes no
\* chunking and no maximum extents (the library's TypeError, nothing is
\* created); an existing dataset must have the same shape and a group is no
\* dataset (TypeError both times), the keywords are not looked at
RequireDataset(nodes, datapath, shape, maxshape, chunks) ==
    LET n == nodes[datapath] IN
    IF n.kind = "absent"
    THEN IF shape = <<>> /\ (chunks = "caller" \/ maxshape = "caller")
         THEN [nodes |-> nodes, err |-> "TypeError"]
         ELSE [nodes |-> [nodes EXCEPT ![datapath] =
                              H5Node("dataset", shape, maxshape, chunks)],
               err |-> "ok"]
    ELSE IF n.kind # "dataset" \/ n.shape # shape
    THEN [nodes |-> nodes, err |-> "TypeError"]
    ELSE [nodes |-> nodes, err |-> "ok"]

\* dataset_from_dshape(file, datapath, ds, **kwargs): the defaults for chunks
\* and maxshape are filled in `if shape:` only, a dataset without dimensions
\* passes on what the caller gave.  The handler of TypeError reads
\* file[datapath].shape: KeyError when nothing is at the datapath,
\* AttributeError on a group, and the error again unless the shapes agree
\* behind the leading extent.
DatasetFromDshape(nodes, datapath, dims, kw) ==
    LET s == DshapeShape(dims) IN
    IF s.err # "ok" THEN [nodes |-> nodes, err |-> s.err]
    ELSE LET chunks   == IF s.shape # <<>> THEN KwGet(kw, "chunks", "auto")
                         ELSE KwGet(kw, "chunks", "none")
             maxshape == IF s.shape # <<>>
                         THEN KwGet(kw, "maxshape", "unlimited")
                         ELSE KwGet(kw, "maxshape", "none")
             r == RequireDataset(nodes, datapath, s.shape, maxshape, chunks)
         IN  IF r.err # "TypeError" THEN r
             ELSE IF nodes[datapath].kind = "absent"
             THEN [nodes |-> nodes, err |-> "KeyError"]
             ELSE IF nodes[datapath].kind # "dataset"
             THEN [nodes |-> nodes, err |-> "AttributeError"]
             ELSE IF PyTail(s.shape) # PyTail(nodes[datapath].shape)
             THEN [nodes |-> nodes, err |-> "TypeError"]
             ELSE [nodes |-> nodes, err |-> "ok"]

\* drop(h): del h.file[h.name]
DropGroup(nodes, datapath) == [nodes EXCEPT ![datapath] = H5Absent]

(***************************************************************************)
(* The hierarchical labeled-table backend (hdfstore.py).                   *)
(* Operators on the container file return the file, the store handle, the  *)
(* table handle and the error that left the call ("ok" when it returned).  *)
(***************************************************************************)
Outcome(f, open, t, err) == [file |-> f, store |-> open, tab |-> t, err |-> err]

\* frames: a column layout and rows
Frame(cols, rows) == [cols |-> cols, rows |-> rows]

\* `if datapath.startswith('/'): datapath = datapath[1:]`
StripSlash(datapath) ==
    CASE datapath = "/a" -> "a"
      [] datapath = "/b" -> "b"
      [] OTHER -> datapath

\* hdf.HDFStore(path): pandas opens the file in mode 'a', which creates the
\* container file when it does not exist
PandasOpen(f) ==
    IF f.exists THEN f
    ELSE [exists |-> TRUE, marker |-> TRUE, nodes |-> [p \in DataPaths |-> Absent]]

\* `store._path` raises AttributeError: never, the pandas store object sets
\* _path in its constructor whatever the file holds
StorePathMissing(f) == FALSE

\* create_as_empty(store, datapath, dshape); dshape "" stands for None
CreateAsEmpty(f, datapath, dshape) ==
    IF dshape = ""
    THEN Outcome(f, FALSE, NoTable, "ValueError")
    ELSE Outcome([f EXCEPT !.nodes[StripSlash(datapath)] =
                      Node("group", TRUE, "", <<>>, FALSE, FALSE, FALSE)],
                 TRUE, [kind |-> "empty", node |-> StripSlash(datapath)], "ok")

\* HDFStore(path, datapath, dshape)
HDFStore(f, datapath, dshape) ==
    IF ~f.exists
    THEN CreateAsEmpty(PandasOpen(f), datapath, dshape)
    ELSE IF StorePathMissing(PandasOpen(f))
    THEN Outcome(f, FALSE, NoTable, "NotImplementedError")
    ELSE LET group == f.nodes[StripSlash(datapath)] IN
         IF group.kind = "absent"
         THEN CreateAsEmpty(f, datapath, dshape)
         ELSE IF ~group.ptype
         THEN Outcome(f, FALSE, NoTable, "NotImplementedError")
         ELSE Outcome(f, TRUE, [kind |-> "table", node |-> StripSlash(datapath)], "ok")

\* store.append(name, data): on a group without a table the table is created
\* from the frame; on a table the frame must have the table's columns, and
\* its rows go to the end.  Rows appended while autoindex is off leave the
\* index dirty.
PandasAppend(f, t, data, datacols) ==
    LET n == f.nodes[t.node] IN
    IF n.kind = "table" /\ n.cols # data.cols
    THEN Outcome(f, TRUE, t, "ValueError")
    ELSE IF n.kind = "table"
    THEN Outcome([f EXCEPT !.nodes[t.node].rows = @ \o data.rows,
                           !.nodes[t.node].dirty = @ \/ ~n.autoindex],
                 TRUE, [kind |-> "table", node |-> t.node], "ok")
    ELSE Outcome([f EXCEPT !.nodes[t.node] =
                      Node("table", TRUE, data.cols, data.rows, TRUE, FALSE, datacols)],
                 TRUE, [kind |-> "table", node |-> t.node], "ok")

\* append_frame_to_hdfstore as registered for (EmptyAppendableFrameTable,
\* DataFrame): format='table', data_columns=True
AppendFrameToEmpty(f, t, data) == PandasAppend(f, t, data, TRUE)

\* append_frame_to_hdfstore as the module name is bound at call time: the
\* second definition, which replaces the first in the module namespace
AppendFrameToHdfstore(f, t, data) == PandasAppend(f, t, data, FALSE)

\* ensure_indexing, up to the yield
EnsureIndexingEnter(f, t) == [f EXCEPT !.nodes[t.node].autoindex = FALSE]

\* ensure_indexing, after the yield
EnsureIndexingExit(f, t) ==
    [f EXCEPT !.nodes[t.node].autoindex = TRUE, !.nodes[t.node].dirty = FALSE]

\* `for chunk in data: t = append_frame_to_hdfstore(t, chunk)`
RECURSIVE AppendFrameLoop(_, _, _)
AppendFrameLoop(f, t, data) ==
    IF data = <<>> THEN Outcome(f, TRUE, t, "ok")
    ELSE LET r == AppendFrameToHdfstore(f, t, Head(data)) IN
         IF r.err # "ok" THEN r
         ELSE AppendFrameLoop(r.file, r.tab, Tail(data))

\* append_chunks_to_hdfstore for (AppendableFrameTable, chunks(DataFrame)).
\* ensure_indexing is a generator-based context manager without try/finally:
\* an error raised in the body is thrown into the generator at its yield
\* and leaves it there, so the statements after the yield do not run.
AppendChunksToHdfstore(f, t, data) ==
    LET r == AppendFrameLoop(EnsureIndexingEnter(f, t), t, data) IN
    IF r.err # "ok" THEN r
    ELSE [r EXCEPT !.file = EnsureIndexingExit(r.file, t)]

\* a call that raised returns nothing: the caller is left with the handle
\* t it passed, whatever the function had bound to its local names
Raised(r, t) == IF r.err # "ok" THEN [r EXCEPT !.tab = t] ELSE r

\* append_chunks_to_hdfstore for (EmptyAppendableFrameTable, chunks(DataFrame)):
\* data[0] of an empty list raises IndexError
AppendChunksToEmpty(f, t, data) ==
    IF data = <<>> THEN Outcome(f, TRUE, t, "IndexError")
    ELSE LET r == AppendFrameToHdfstore(f, t, Head(data)) IN
         IF r.err # "ok" THEN Raised(r, t)
         ELSE Raised(AppendChunksToHdfstore(r.file, r.tab, Tail(data)), t)

\* drop(t): t.remove() deletes the node of the table
DropTable(f, t) == [f EXCEPT !.nodes[t.node] = Absent]

\* convert(pd.DataFrame, data): t.parent.select(name) with no where and no
\* columns reads the whole table
HdfstoreToDataframe(f, data) ==
    Frame(f.nodes[data.node].cols, f.nodes[data.node].rows)

\* append_hdfstore_to_empty(t, data): nothing is done when data is the same
\* group of the same file, and data is returned; otherwise the rows of data
\* are appended by append_frame_to_hdfstore as the module name is bound
AppendHdfstoreToEmpty(f, t, data) ==
    IF t.node = data.node THEN Outcome(f, TRUE, data, "ok")
    ELSE AppendFrameToHdfstore(f, t, HdfstoreToDataframe(f, data))

\* append_hdfstore_to_hdfstore(t, data)
AppendHdfstoreToHdfstore(f, t, data) ==
    AppendFrameToHdfstore(f, t, HdfstoreToDataframe(f, data))

\* the iterator t.parent.select(name, chunksize=...) returns fixes the
\* rows it will read, those the table holds then: when select is called
\* or when the first chunk is asked for, depending on the library
SelectStart(cs, n) == [cs EXCEPT !.started = TRUE, !.stop = Len(n.rows), !.pos = 0]

\* next(it) on that iterator: the next window of chunksize rows, up to
\* the row count fixed at the start, read from the table as it is now
SelectNext(cs, n) ==
    LET c1 == IF cs.started THEN cs ELSE SelectStart(cs, n) IN
    IF c1.pos >= c1.stop
    THEN [yield |-> FALSE, chunk |-> Frame("", <<>>),
          cs |-> [c1 EXCEPT !.exhausted = TRUE]]
    ELSE [yield |-> TRUE,
          chunk |-> Frame(n.cols, SubSeq(n.rows, c1.pos + 1,
                                         Min(c1.pos + cs.chunksize, c1.stop))),
          cs |-> [c1 EXCEPT !.pos = Min(c1.pos + cs.chunksize, c1.stop)]]

\* hdfstore_to_dataframe_chunks(t, chunksize): wraps the function load,
\* which selects from t anew each time it is called
HdfstoreToDataframeChunks(t, chunksize) ==
    [kind |-> "factory", chunksize |-> chunksize, exhausted |-> FALSE,
     iterated |-> FALSE, changed |-> FALSE, active |-> FALSE,
     started |-> FALSE, stop |-> 0, pos |-> 0, out |-> <<>>, moved |-> FALSE,
     resumed |-> FALSE, node |-> t.node]

\* cleanup(t): try: t.parent.close() except: pass
CleanupStore(open, raises) ==
    [open |-> LibClose(open, raises).open, err |-> "ok"]

(***************************************************************************)
(* The S3 backend (aws.py).  A credential is a string, None when absent.   *)
(***************************************************************************)
None == "None"

\* a key / secret pair as one source supplies it: the arguments of a call,
\* the [Credentials] section of the boto configuration, os.environ
Creds(key, secret) == [key |-> key, secret |-> secret]

\* the argument tuples get_s3_connection is called with
ConnArgs ==
    [key : {None, "arg-key"}, secret : {None, "arg-secret"}, anon : BOOLEAN]

\* boto.connect_s3(aws_access_key_id, aws_secret_access_key, anon=anon)
ConnectS3(key, secret, anon) ==
    [kind |-> "conn", key |-> key, secret |-> secret, anon |-> anon]

NoConn == [kind |-> "none"]

\* `if x is None: x = cfg.get(...)` then `if x is None: x = os.environ.get(...)`
FirstOf(arg, cfg, env) ==
    LET x == IF arg = None THEN cfg ELSE arg
    IN  IF x = None THEN env ELSE x

\* the body of get_s3_connection, as it runs on a cache miss
GetS3ConnectionBody(cfg, env, a) ==
    LET aws_access_key_id     == FirstOf(a.key, cfg.key, env.key)
        aws_secret_access_key == FirstOf(a.secret, cfg.secret, env.secret)
        anon == /\ ~a.anon
                /\ aws_access_key_id = None
                /\ aws_secret_access_key = None
    IN  ConnectS3(aws_access_key_id, aws_secret_access_key, anon)

\* @memoize: the first call with given arguments runs the body and stores
\* its result; every later call with the same arguments returns the stored
\* result without running the body
GetS3Connection(st, a) ==
    IF st.memo[a] # NoConn
    THEN [s3 |-> st, conn |-> st.memo[a], cached |-> TRUE]
    ELSE LET c == GetS3ConnectionBody(st.cfg, st.env, a) IN
         [s3 |-> [st EXCEPT !.memo[a] = c], conn |-> c, cached |-> FALSE]

\* bytes of a CSV object: a letter, carriage return, linefeed
CR == "CR"
LF == "LF"
Bytes == {"a", CR, LF}

\* raw.rindex(pat): the highest 0-based index at which pat occurs in raw,
\* -1 standing for the ValueError that rindex raises when pat does not occur
RIndex(raw, pat) ==
    LET at == { i \in 0..Len(raw) - Len(pat) :
                  SubSeq(raw, i + 1, i + Len(pat)) = pat }
    IN  IF at = {} THEN -1 ELSE CHOOSE i \in at : \A j \in at : j <= i

\* get_contents_as_string(headers={'Range': 'bytes=0-%d' % length}): an HTTP
\* byte range names its last byte, so bytes 0..length are returned,
\* length + 1 of them when the object has that many
RangeGet(obj, length) == SubSeq(obj, 1, Min(Len(obj), length + 1))

\* a sample that keeps everything the range request returned
KeepRaw(raw) == [err |-> "ok", raw |-> raw]

\* the try / except around rindex and `raw = raw[:index]`
TrimPartialLine(raw) ==
    LET crlf  == RIndex(raw, <<CR, LF>>)
        index == IF crlf >= 0 THEN crlf ELSE RIndex(raw, <<LF>>)
    IN  IF index < 0 THEN [err |-> "ValueError", raw |-> raw]
        ELSE [err |-> "ok", raw |-> SubSeq(raw, 1, index)]

\* tmpfile('.csv'): a fresh file name, no file behind it yet
NoTmp == [exists |-> FALSE, content |-> <<>>]

\* `with open(fn, 'wb') as f: f.write(raw)`
WriteTmp(raw) == [exists |-> TRUE, content |-> raw]

\* tmpfile leaves its scope: the file is removed if it exists
TmpfileExit(tmp) == NoTmp

\* sample_s3_csv(data, length) up to its yield: the file written and the
\* error that left the call, "ok" when the path was yielded
SampleS3Csv(obj, length) ==
    LET t == TrimPartialLine(RangeGet(obj, length)) IN
    IF t.err # "ok" THEN [tmp |-> NoTmp, err |-> t.err, scope |-> FALSE]
    ELSE [tmp |-> WriteTmp(t.raw), err |-> "ok", scope |-> TRUE]

\* buckets of the S3 account and the local CSV files of the caller
BucketNames == {"b1", "b2"}
LocalPaths == {"t.csv", "d/t.csv", "d/u.csv"}
KeyNames == {"t.csv", "u.csv"}

\* os.path.basename(csv.path)
Basename(path) ==
    CASE path = "d/t.csv" -> "t.csv"
      [] path = "d/u.csv" -> "u.csv"
      [] OTHER -> path

\* a bucket: absent, or the content stored under each of its keys (None for
\* a key it does not hold)
NoBucket == [exists |-> FALSE, keys |-> [k \in KeyNames |-> None]]

\* s3.get_bucket(bucket_name), and s3.create_bucket(bucket_name) in the
\* handler of the S3ResponseError that get_bucket raises for a missing bucket
GetOrCreateBucket(buckets, bucket_name) ==
    IF buckets[bucket_name].exists THEN buckets
    ELSE [buckets EXCEPT ![bucket_name].exists = TRUE]

\* key = Key(bucket, name=...); key.set_contents_from_filename(csv.path)
SetContentsFromFilename(buckets, bucket_name, name, content) ==
    [buckets EXCEPT ![bucket_name].keys[name] = content]

\* S3 is `def S3(cls)` under @memoize: a call that passes any keyword
\* argument besides cls raises TypeError; otherwise the class S3(cls)
S3(cls, kwargs) ==
    IF kwargs # {} THEN [err |-> "TypeError", cls |-> None]
    ELSE [err |-> "ok", cls |-> cls]

\* the state of the S3 backend: credential sources, the cache of
\* get_s3_connection, the buckets, the temporary file of a sample and
\* whether its scope is open
S3State(cfg, env, memo, buckets, tmp, scope, sampled) ==
    [cfg |-> cfg, env |-> env, memo |-> memo, buckets |-> buckets,
     tmp |-> tmp, scope |-> scope, sampled |-> sampled]

NoSample == [obj |-> <<>>, length |-> 0]

NoS3 ==
    S3State(Creds(None, None), Creds(None, None), [a \in ConnArgs |-> NoConn],
            [b \in BucketNames |-> NoBucket], NoTmp, FALSE, NoSample)

\* convert_csv_to_s3(csv, bucket_name, aws_access_key_id,
\* aws_secret_access_key): the state afterwards, the value returned and the
\* error that left the call.  The return statement calls S3 with the CSV
\* instance and the keyword s3.
ConvertCsvToS3(st, path, content, bucket_name, key, secret) ==
    IF bucket_name = None
    THEN [s3 |-> st, err |-> "AssertionError", result |-> None, uploaded |-> FALSE]
    ELSE LET c    == GetS3Connection(st, [key |-> key, secret |-> secret, anon |-> FALSE])
             bs   == GetOrCreateBucket(c.s3.buckets, bucket_name)
             name == Basename(path)
             up   == SetContentsFromFilename(bs, bucket_name, name, content)
             ret  == S3("CSV-instance", {"s3"})
         IN  [s3 |-> [c.s3 EXCEPT !.buckets = up],
              err |-> ret.err,
              result |-> IF ret.err = "ok"
                         THEN [bucket |-> bucket_name, key |-> name]
                         ELSE None,
              uploaded |-> TRUE]

\* the task graph the caller holds: none outside the task-graph core
NoDask == [kind |-> "none"]

(***************************************************************************)
(* The HDF5 array backend as a state machine: a caller holding one open    *)
(* dataset appends to it, converts it and cleans its handles up.           *)
(***************************************************************************)
MaxShapeRows == 2     \* the finite maxshape[0] of the bounded dataset
MaxChunkSize == 2     \* window sizes tried by the chunked conversion

\* the window sizes callers pass: 1, 1.5, 2, 2.5, ...
ChunkSizes == { Number(n, h) : n \in 1..MaxChunkSize, h \in BOOLEAN }

\* the datasets a file holds when the caller opens it: all empty, 1-d or
\* 2-d, resizable without limit or up to MaxShapeRows rows
InitDatasets ==
    { Dataset(<<0>>, TRUE, 0, <<>>),
      Dataset(<<0, 2>>, TRUE, 0, <<>>),
      Dataset(<<0>>, FALSE, MaxShapeRows, <<>>) }

\* arrays of the dataset's own rank and trailing extents, of at most k rows
ConformableUpTo(d, k) ==
    IF Len(d.shape) = 1
    THEN UNION { { Arr(<<m>>, data) : data \in SeqN(Values, m) } : m \in 0..k }
    ELSE UNION { { Arr(<<m, 2>>, data) : data \in SeqN(Rows2, m) } : m \in 0..k }

Conformable(d) == ConformableUpTo(d, MaxX)

\* arrays whose trailing extent differs from the dataset's and does not
\* broadcast to it
NonConformable(d) ==
    IF Len(d.shape) = 1 THEN {}
    ELSE { Arr(<<1, 3>>, << <<1, 1, 1>> >>), Arr(<<0, 3>>, <<>>) }

Arrays(d) == Conformable(d) \cup NonConformable(d)

\* chunked sequences of at most MaxChunks arrays
ChunkArrays(d) == ConformableUpTo(d, MaxChunkRows) \cup NonConformable(d)

ChunkSeqs(d) == UNION { SeqN(ChunkArrays(d), k) : k \in 0..MaxChunks }

RECURSIVE TotalRows(_)
TotalRows(c) == IF c = <<>> THEN 0 ELSE PyLen(Head(c)) + TotalRows(Tail(c))

\* shapes of the datasets the whole-array conversion is tried on
ConvShapes ==
    { <<0>>, <<3>>, <<GuardLimit>>, <<GuardLimit + 1>>, <<2, GuardLimit>>,
      <<31622, 31622>>, <<31623, 31623>> }

\* no call in progress; last names the cleanup the caller made last, if the
\* last call was a cleanup
Idle(last) == [op |-> "none", last |-> last]

\* the last call has returned (or raised) to the caller, who goes on
Return ==
    /\ call.op # "none"
    /\ call' = Idle(IF call.op \in {"cleanup_file", "cleanup_dataset", "cleanup"}
                    THEN call.op ELSE "none")
    /\ UNCHANGED <<dset, fopen, cseq, hfile, store, tab, h5nodes, s3, dsk>>

\* the chunked sequence remembers whether the dataset was modified after
\* its first iteration, and whether it was modified while its iterator
\* stood between two chunks
Touched(cs, before, after) ==
    IF cs.kind = "none" \/ before = after THEN cs
    ELSE LET c1 == IF cs.iterated THEN [cs EXCEPT !.changed = TRUE] ELSE cs IN
         IF cs.started /\ ~cs.exhausted
         THEN [c1 EXCEPT !.moved = TRUE] ELSE c1

InitH5py ==
    /\ dset \in InitDatasets
    /\ fopen = TRUE
    /\ cseq = NoChunks
    /\ call = Idle("none")
    /\ hfile = NoFile /\ store = FALSE /\ tab = NoTable
    /\ h5nodes = NoNodes
    /\ s3 = NoS3 /\ dsk = NoDask

\* append(dset, x) with x an array
AppendArray ==
    /\ call.op = "none"
    /\ fopen
    /\ \E x \in Arrays(dset) :
         /\ dset.shape[1] + PyLen(x) <= MaxRows
         /\ LET r == AppendH5py(dset, x) IN
            /\ dset' = r.dset
            /\ cseq' = Touched(cseq, dset, r.dset)
            /\ call' = [op |-> "append", x |-> x, before |-> dset,
                        err |-> r.err]
    /\ UNCHANGED <<fopen, noth5>>

\* append(dset, c) with c a chunked sequence of arrays
AppendChunks ==
    /\ call.op = "none"
    /\ fopen
    /\ \E c \in ChunkSeqs(dset) :
         /\ dset.shape[1] + TotalRows(c) <= MaxRows
         /\ LET r == AppendH5pyDsetChunks(dset, c) IN
            /\ dset' = r.dset
            /\ cseq' = Touched(cseq, dset, r.dset)
            /\ call' = [op |-> "append_chunks", c |-> c, before |-> dset,
                        err |-> r.err, applied |-> r.applied]
    /\ UNCHANGED <<fopen, noth5>>

\* convert(np.ndarray, dset, force=...) on a dataset of some shape
ConvertToArray ==
    /\ call.op = "none"
    /\ fopen
    /\ \E shape \in ConvShapes, force \in BOOLEAN :
         LET r == H5pyToNumpy(ProdSeq(shape), force) IN
         call' = [op |-> "to_array", size |-> ProdSeq(shape),
                  force |-> force, err |-> r.err, read |-> r.read]
    /\ UNCHANGED <<dset, fopen, cseq, noth5>>

\* c = convert(chunks(np.ndarray), dset, chunksize=...)
ConvertToChunks ==
    /\ call.op = "none"
    /\ fopen
    /\ \E chunksize \in ChunkSizes :
         cseq' = H5pyToNumpyChunks(chunksize)
    /\ call' = [op |-> "to_chunks"]
    /\ UNCHANGED <<dset, fopen, noth5>>

\* it = iter(c): a traversal of the chunked sequence begins; the iterator
\* of a sequence that wraps a generator object is that generator
IterateChunks ==
    /\ call.op = "none"
    /\ fopen
    /\ cseq.kind # "none"
    /\ cseq' = ChunksIter(cseq)
    /\ call' = [op |-> "iter"]
    /\ UNCHANGED <<dset, fopen, noth5>>

\* next(it): the consumer takes the next chunk; between two chunks the
\* caller is free to append to the dataset.  The call that ends the
\* traversal (StopIteration) is recorded with all the chunks received.
NextChunk ==
    /\ call.op = "none"
    /\ fopen
    /\ cseq.kind # "none" /\ cseq.active
    /\ LET r == GeneratorNext(cseq, dset) IN
       IF r.yield
       THEN /\ cseq' = [r.cs EXCEPT !.out = @ \o <<r.chunk>>]
            /\ call' = [op |-> "next", chunk |-> r.chunk]
       ELSE /\ cseq' = [r.cs EXCEPT !.active = FALSE, !.iterated = TRUE]
            /\ call' = [op |-> "iterate", out |-> cseq.out,
                        again |-> cseq.iterated, changed |-> cseq.changed,
                        moved |-> cseq.moved, resumed |-> cseq.resumed]
    /\ UNCHANGED <<dset, fopen, noth5>>

\* cleanup(f) on the h5py.File
CleanupFileCall ==
    /\ call.op = "none"
    /\ \E raises \in BOOLEAN :
         LET r == CleanupFile(fopen, raises) IN
         /\ fopen' = r.open
         /\ call' = [op |-> "cleanup_file", again |-> call.last = "cleanup_file",
                     err |-> r.err, before |-> dset]
    /\ UNCHANGED <<dset, cseq, noth5>>

\* cleanup(dset) on the h5py.Dataset
CleanupDatasetCall ==
    /\ call.op = "none"
    /\ \E raises \in BOOLEAN :
         LET r == CleanupDataset(fopen, raises) IN
         /\ fopen' = r.open
         /\ call' = [op |-> "cleanup_dataset",
                     again |-> call.last = "cleanup_dataset",
                     err |-> r.err, before |-> dset]
    /\ UNCHANGED <<dset, cseq, noth5>>

\* appends onto a dataset
NextAppend ==
    \/ AppendArray
    \/ AppendChunks
    \/ Return

SpecAppend == InitH5py /\ [][NextAppend]_vars

\* conversions and cleanup of a dataset that appends have filled
NextH5py ==
    \/ AppendArray
    \/ ConvertToArray
    \/ ConvertToChunks
    \/ IterateChunks
    \/ NextChunk
    \/ CleanupFileCall
    \/ CleanupDatasetCall
    \/ Return

SpecH5py == InitH5py /\ [][NextH5py]_vars
(***************************************************************************)
(* Claims about the HDF5 array backend, checked under SpecH5py             *)
(* (C2, C4, C5, C6) and SpecAppend (C7, C9).                               *)
(***************************************************************************)

\* the rows of chunks c[1..k], concatenated
RECURSIVE RowsOf(_, _)
RowsOf(c, k) == IF k = 0 THEN <<>> ELSE RowsOf(c, k - 1) \o c[k].data

\* the dataset can admit m more rows
Admits(d, m) == d.unlimited \/ d.shape[1] + m <= d.maxrows

\* C2: calling cleanup twice in succession on the same handle (h5py.File or
\* h5py.Dataset) never raises on the second call, and the data is untouched.
C2_SecondCleanupNeverRaises ==
    (call.op \in {"cleanup_file", "cleanup_dataset"} /\ call.again)
        => (call.err = "ok" /\ dset = call.before)

\* C4: converting a dataset of more than 10^9 elements to an array without
\* force fails with MemoryError, before any element is read.
C4_LargeDatasetRefusedWithMemoryError ==
    (call.op = "to_array" /\ call.size > GuardLimit /\ ~call.force)
        => (call.err = "MemoryError" /\ call.read = 0)

\* C5: with force=True the size guard is bypassed: a dataset of more than
\* 10^9 elements is loaded and returned.
C5_ForceBypassesGuard ==
    (call.op = "to_array" /\ call.size > GuardLimit /\ call.force)
        => (call.err = "ok" /\ call.read = call.size)

\* C6: iterating the same chunked sequence again, after an iteration that ran
\* to completion and with the dataset unchanged, yields every chunk of the
\* dataset again, in order.
C6_ChunksRestartable ==
    (call.op = "iterate" /\ call.again /\ ~call.changed)
        => call.out = H5pyToNumpyIterator(dset, cseq.chunksize)

\* C7: append of an array x of the dataset's rank and trailing extents: if x
\* has zero rows the call returns and the dataset is unchanged; otherwise the
\* leading extent grows by len(x), the old rows are unchanged, the last
\* len(x) rows equal x and the trailing extents are unchanged.
C7_AppendArrayContract ==
    (/\ call.op = "append"
     /\ call.x \in Conformable(call.before)
     /\ Admits(call.before, PyLen(call.x)))
        => /\ call.err = "ok"
           /\ IF PyLen(call.x) = 0
              THEN dset = call.before
              ELSE /\ dset.shape[1] = call.before.shape[1] + PyLen(call.x)
                   /\ Tail(dset.shape) = Tail(call.before.shape)
                   /\ dset.data = call.before.data \o call.x.data

\* C9 as stated: when the append of chunk k fails, the dataset holds exactly
\* its original rows followed by the rows of c1..c(k-1).
C9_FailedChunkLeavesExactPrefix ==
    (call.op = "append_chunks" /\ call.err # "ok")
        => dset.data = call.before.data \o RowsOf(call.c, call.applied)

\* C9 amended: the chunks are appended one by one in order; when the append
\* of chunk k fails, the dataset holds its original rows followed by the
\* rows of c1..c(k-1), followed by at most len(ck) further rows (the rows
\* chunk k's resize added before its write failed, which were never written
\* and hold the fill value); chunks k+1..n are never applied and the error
\* leaves the call.
C9_FailedChunkLeavesPrefix ==
    call.op = "append_chunks"
        => LET kept == call.before.data \o RowsOf(call.c, call.applied) IN
           /\ dset.shape[1] = Len(dset.data)
           /\ IF call.err = "ok"
              THEN /\ call.applied = Len(call.c)
                   /\ dset.data = kept
              ELSE /\ call.applied < Len(call.c)
                   /\ Len(dset.data) >= Len(kept)
                   /\ Len(dset.data) <= Len(kept) + PyLen(call.c[call.applied + 1])
                   /\ SubSeq(dset.data, 1, Len(kept)) = kept
                   /\ \A i \in Len(kept) + 1..Len(dset.data) :
                         dset.data[i] = FillRow(dset.shape)

\* C9 witness: a chunk in the middle fails after its resize: chunks were
\* applied before it, chunks follow it, and unwritten rows are left behind
C9_Witness ==
    /\ call.op = "append_chunks" /\ call.err # "ok"
    /\ call.applied >= 1
    /\ Len(call.c) > call.applied + 1
    /\ PyLen(call.c[Len(call.c)]) > 0
    /\ Len(dset.data) > Len(call.before.data \o RowsOf(call.c, call.applied))
(***************************************************************************)
(* The hierarchical-table backend as a state machine: a caller opens one   *)
(* table of the container file at `path`, appends frames to it, reads it   *)
(* in chunks and cleans the handle up.                                     *)
(***************************************************************************)
ForeignGroup == Node("group", FALSE, "", <<>>, FALSE, FALSE, FALSE)

StoredTable == Node("table", TRUE, "ab", <<1>>, TRUE, FALSE, TRUE)

\* the files that can be at `path` before the caller's first call: none, a
\* pandas store (with or without a table at "a"), a file written by another
\* library (no marker, bare groups only)
InitFiles ==
    {NoFile}
    \cup { [exists |-> TRUE, marker |-> TRUE,
            nodes |-> [p \in DataPaths |-> IF p = "a" THEN n ELSE Absent]] :
           n \in {Absent, StoredTable, ForeignGroup} }
    \cup { [exists |-> TRUE, marker |-> FALSE,
            nodes |-> [p \in DataPaths |-> IF p = "a" THEN n ELSE Absent]] :
           n \in {Absent, ForeignGroup} }

\* frames of at least one row with the table's columns "ab", and one frame
\* with other columns
Frames(k) ==
    UNION { { Frame("ab", rows) : rows \in SeqN(Values, m) } : m \in 1..k }
    \cup { Frame("xy", <<1>>) }

FrameSeqs == UNION { SeqN(Frames(MaxChunkRows), k) : k \in 0..MaxChunks }

RECURSIVE FrameRows(_)
FrameRows(c) == IF c = <<>> THEN <<>> ELSE Head(c).rows \o FrameRows(Tail(c))

InitHDFStore ==
    /\ hfile \in InitFiles
    /\ store = FALSE
    /\ tab = NoTable
    /\ cseq = NoChunks
    /\ call = Idle("none")
    /\ dset = Dataset(<<0>>, TRUE, 0, <<>>) /\ fopen = FALSE
    /\ h5nodes = NoNodes
    /\ s3 = NoS3 /\ dsk = NoDask

\* t = HDFStore(path, datapath, dshape)
OpenStore ==
    /\ call.op = "none"
    /\ tab.kind = "none"
    /\ \E datapath \in {"a", "/a", "b", "/b"}, dshape \in {"", "ab"} :
         LET r == HDFStore(hfile, datapath, dshape) IN
         /\ hfile' = r.file
         /\ store' = r.store
         /\ tab' = r.tab
         /\ call' = [op |-> "open", datapath |-> datapath, dshape |-> dshape,
                     before |-> hfile, err |-> r.err]
    /\ UNCHANGED <<cseq, notstore>>

\* t = append(t, frame)
AppendFrame ==
    /\ call.op = "none"
    /\ store /\ tab.kind # "none"
    /\ \E data \in Frames(MaxX) :
         /\ Len(hfile.nodes[tab.node].rows) + Len(data.rows) <= MaxRows
         /\ LET r == IF tab.kind = "empty"
                     THEN AppendFrameToEmpty(hfile, tab, data)
                     ELSE AppendFrameToHdfstore(hfile, tab, data)
            IN  /\ hfile' = r.file
                /\ tab' = r.tab
                /\ cseq' = Touched(cseq, hfile, r.file)
                /\ call' = [op |-> "append_frame", data |-> data,
                            before |-> hfile, err |-> r.err]
    /\ UNCHANGED <<store, notstore>>

\* t = append(t, chunks(pd.DataFrame)(data))
AppendFrames ==
    /\ call.op = "none"
    /\ store /\ tab.kind # "none"
    /\ \E data \in FrameSeqs :
         /\ Len(hfile.nodes[tab.node].rows) + Len(FrameRows(data)) <= MaxRows
         /\ LET r == IF tab.kind = "empty"
                     THEN AppendChunksToEmpty(hfile, tab, data)
                     ELSE AppendChunksToHdfstore(hfile, tab, data)
            IN  /\ hfile' = r.file
                /\ tab' = r.tab
                /\ cseq' = Touched(cseq, hfile, r.file)
                /\ call' = [op |-> "append_frames", data |-> data,
                            before |-> hfile, target |-> tab, err |-> r.err]
    /\ UNCHANGED <<store, notstore>>

\* t = append(t, data) with data a table handle: the handle t itself, or
\* the handle of a stored table of the same file
AppendTable ==
    /\ call.op = "none"
    /\ store /\ tab.kind # "none"
    /\ \E data \in {tab} \cup { [kind |-> "table", node |-> p] :
                                   p \in { q \in DataPaths : hfile.nodes[q].kind = "table" } } :
         /\ Len(hfile.nodes[tab.node].rows) + Len(hfile.nodes[data.node].rows) <= MaxRows
         /\ LET r == IF tab.kind = "empty"
                     THEN AppendHdfstoreToEmpty(hfile, tab, data)
                     ELSE AppendHdfstoreToHdfstore(hfile, tab, data)
            IN  /\ hfile' = r.file
                /\ tab' = r.tab
                /\ cseq' = Touched(cseq, hfile, r.file)
                /\ call' = [op |-> "append_table", data |-> data,
                            before |-> hfile, target |-> tab, err |-> r.err]
    /\ UNCHANGED <<store, notstore>>

\* c = convert(chunks(pd.DataFrame), t, chunksize=...)
ToFrameChunks ==
    /\ call.op = "none"
    /\ store /\ tab.kind = "table"
    /\ \E chunksize \in 1..MaxChunkSize :
         cseq' = HdfstoreToDataframeChunks(tab, chunksize)
    /\ call' = [op |-> "to_chunks"]
    /\ UNCHANGED <<storevars, notstore>>

\* it = iter(c): the sequence calls load, which calls select; a traversal
\* begins on a new iterator
IterateFrameChunks ==
    /\ call.op = "none"
    /\ store /\ tab.kind = "table"
    /\ cseq.kind # "none" /\ cseq.node = tab.node
    /\ \E atselect \in BOOLEAN :
         cseq' = IF atselect
                 THEN SelectStart(ChunksIter(cseq), hfile.nodes[cseq.node])
                 ELSE ChunksIter(cseq)
    /\ call' = [op |-> "iter"]
    /\ UNCHANGED <<storevars, notstore>>

\* next(it): the consumer takes the next frame; between two frames the
\* caller is free to append to the table.  The call that ends the
\* traversal (StopIteration) is recorded with all the frames received.
NextFrameChunk ==
    /\ call.op = "none"
    /\ store /\ tab.kind = "table"
    /\ cseq.kind # "none" /\ cseq.node = tab.node /\ cseq.active
    /\ LET r == SelectNext(cseq, hfile.nodes[cseq.node]) IN
       IF r.yield
       THEN /\ cseq' = [r.cs EXCEPT !.out = @ \o <<r.chunk>>]
            /\ call' = [op |-> "next", chunk |-> r.chunk]
       ELSE /\ cseq' = [r.cs EXCEPT !.active = FALSE, !.iterated = TRUE]
            /\ call' = [op |-> "iterate", out |-> cseq.out,
                        again |-> cseq.iterated, changed |-> cseq.changed,
                        moved |-> cseq.moved, resumed |-> cseq.resumed]
    /\ UNCHANGED <<storevars, notstore>>

\* cleanup(t)
CleanupStoreCall ==
    /\ call.op = "none"
    /\ tab.kind # "none"
    /\ \E raises \in BOOLEAN :
         LET r == CleanupStore(store, raises) IN
         /\ store' = r.open
         /\ call' = [op |-> "cleanup", again |-> call.last = "cleanup",
                     err |-> r.err, before |-> hfile]
    /\ UNCHANGED <<hfile, tab, cseq, notstore>>

\* drop(t); the caller lets go of the handle of the node that is gone and
\* of the chunked sequence made from it
DropTableCall ==
    /\ call.op = "none"
    /\ store /\ tab.kind # "none"
    /\ hfile' = DropTable(hfile, tab)
    /\ tab' = NoTable
    /\ cseq' = IF cseq.kind # "none" /\ cseq.node = tab.node THEN NoChunks
               ELSE cseq
    /\ call' = [op |-> "drop", node |-> tab.node, before |-> hfile]
    /\ UNCHANGED <<store, notstore>>

NextHDFStore ==
    \/ OpenStore
    \/ DropTableCall
    \/ AppendFrame
    \/ AppendFrames
    \/ AppendTable
    \/ ToFrameChunks
    \/ IterateFrameChunks
    \/ NextFrameChunk
    \/ CleanupStoreCall
    \/ Return

SpecHDFStore == InitHDFStore /\ [][NextHDFStore]_vars

(***************************************************************************)
(* Claims about the hierarchical-table backend, checked under SpecHDFStore.*)
(***************************************************************************)

\* C1: when a chunked append onto an existing table raises inside the
\* index-suspension scope, the table's autoindex is enabled again and the
\* dirty index has been rebuilt when the error reaches the caller.
C1_IndexingRestoredOnError ==
    (call.op = "append_frames" /\ call.target.kind = "table" /\ call.err # "ok")
        => /\ hfile.nodes[tab.node].autoindex
           /\ ~hfile.nodes[tab.node].dirty

\* C3: HDFStore(path, datapath, dshape=None) for a table that does not exist
\* fails eagerly with no side effect: no container file is created at path
\* and no node is created in an existing file.
C3_MissingDshapeFailsWithoutSideEffect ==
    (/\ call.op = "open" /\ call.dshape = ""
     /\ (~call.before.exists
         \/ call.before.nodes[StripSlash(call.datapath)].kind = "absent"))
        => (call.err = "ValueError" /\ hfile = call.before)

\* C8: for any finite sequence of frames with the table's columns, zero
\* frames included, the chunked append completes and the table then holds
\* the rows it held before followed by the rows of all chunks in order,
\* for an empty placeholder and for a populated table alike.
C8_ChunkedAppendAddsAllRows ==
    (/\ call.op = "append_frames"
     /\ \A i \in 1..Len(call.data) : call.data[i].cols = "ab")
        => /\ call.err = "ok"
           /\ hfile.nodes[tab.node].rows =
                  call.before.nodes[call.target.node].rows \o FrameRows(call.data)
(***************************************************************************)
(* Dataset creation as a state machine: a caller creates datasets from     *)
(* datashapes in one HDF5 file and drops them.                             *)
(***************************************************************************)
MaxDims == 3      \* dimensions of a datashape
MaxExtent == 2    \* fixed extents run over 1..MaxExtent

Dshapes == UNION { SeqN({Var} \cup 1..MaxExtent, k) : k \in 0..MaxDims }

\* creation keywords: none, the caller's own chunks (True or a chunk shape),
\* the caller's own maxshape (a tuple of maximum extents, not the empty one)
Kwargs ==
    { [chunks |-> c, maxshape |-> m] :
        c \in {"unset", "caller"}, m \in {"unset", "caller"} }

InitCreate ==
    /\ h5nodes \in { NoNodes,
                     [NoNodes EXCEPT !["/x"] = H5Node("group", <<>>, "none", "none")] }
    /\ call = Idle("none")
    /\ cseq = NoChunks
    /\ dset = Dataset(<<0>>, TRUE, 0, <<>>) /\ fopen = FALSE
    /\ hfile = NoFile /\ store = FALSE /\ tab = NoTable
    /\ s3 = NoS3 /\ dsk = NoDask

\* dataset_from_dshape(file, datapath, ds, **kwargs)
CreateDataset ==
    /\ call.op = "none"
    /\ \E datapath \in H5Paths, dims \in Dshapes, kw \in Kwargs :
         LET r == DatasetFromDshape(h5nodes, datapath, dims, kw) IN
         /\ h5nodes' = r.nodes
         /\ call' = [op |-> "create", datapath |-> datapath, dims |-> dims,
                     kw |-> kw, before |-> h5nodes, err |-> r.err]
    /\ UNCHANGED notcreate

\* drop(h) on a group or dataset of the file
DropNode ==
    /\ call.op = "none"
    /\ \E datapath \in H5Paths :
         /\ h5nodes[datapath].kind # "absent"
         /\ h5nodes' = DropGroup(h5nodes, datapath)
         /\ call' = [op |-> "drop", datapath |-> datapath]
    /\ UNCHANGED notcreate

NextCreate ==
    \/ CreateDataset
    \/ DropNode
    \/ Return

SpecCreate == InitCreate /\ [][NextCreate]_vars

(***************************************************************************)
(* Claims about dataset creation, checked under SpecCreate.                *)
(***************************************************************************)

\* a datashape with an unbounded dimension at a position other than the
\* outermost
InnerVar(dims) == \E i \in 2..Len(dims) : dims[i] = Var

\* C10: creating a dataset from a datashape with an unbounded dimension
\* anywhere but outermost fails with ValueError (Unsupported-Shape), and no
\* dataset is created at the datapath.
C10_InnerVarRejected ==
    (call.op = "create" /\ InnerVar(call.dims))
        => (call.err = "ValueError" /\ h5nodes = call.before)

\* C10 witness: a datashape whose only unbounded dimension is an inner one
\* was refused while the datapath was free
C10_Witness ==
    /\ call.op = "create"
    /\ Len(call.dims) >= 2 /\ call.dims[1] # Var /\ InnerVar(call.dims)
    /\ call.err = "ValueError"
    /\ h5nodes[call.datapath].kind = "absent"

\* a datashape without dimensions given together with chunks or maximum
\* extents of the caller's own
ScalarWithOptions(dims, kw) ==
    dims = <<>> /\ (kw.chunks = "caller" \/ kw.maxshape = "caller")

\* C11 as stated: every datashape without an inner unbounded dimension
\* creates, at a free datapath, a dataset that has, with no unbounded
\* dimension, exactly the full fixed shape and, with the outermost dimension
\* unbounded, leading extent 0 followed by the fixed extents of the remaining
\* dimensions, an unbounded maximum leading extent and automatic chunking,
\* each replaced by the caller's own maxshape / chunks value when the caller
\* supplied one.
C11_EveryDshapeCreatesItsShape ==
    (/\ call.op = "create"
     /\ call.before[call.datapath].kind = "absent"
     /\ ~InnerVar(call.dims))
        => LET n  == h5nodes[call.datapath]
               kw == call.kw
           IN  /\ call.err = "ok"
               /\ n.kind = "dataset"
               /\ IF ~InSeq(Var, call.dims)
                  THEN n.shape = call.dims
                  ELSE /\ n.shape = <<0>> \o Tail(call.dims)
                       /\ n.maxshape = IF kw.maxshape = "unset"
                                       THEN "unlimited" ELSE kw.maxshape
                       /\ n.chunks = IF kw.chunks = "unset"
                                     THEN "auto" ELSE kw.chunks

\* C11: at a free datapath, a datashape without an inner unbounded dimension
\* creates a dataset that has, with no unbounded dimension, exactly the full
\* fixed shape and, with the outermost dimension unbounded, leading extent 0
\* followed by the fixed extents of the remaining dimensions, an unbounded
\* maximum leading extent and automatic chunking, each replaced by the
\* caller's own maxshape / chunks value when the caller supplied one; a
\* dataset with at least one dimension and no unbounded one gets the same
\* defaults and the same replacements; a datashape without dimensions is
\* created without chunking and without maximum extents, and given together
\* with the caller's own chunks or maxshape it creates nothing: the call
\* fails with KeyError and the file is as before.
C11_CreatedShapeFollowsDshape ==
    (/\ call.op = "create"
     /\ call.before[call.datapath].kind = "absent"
     /\ ~InnerVar(call.dims))
        => LET n  == h5nodes[call.datapath]
               kw == call.kw
           IN  IF ScalarWithOptions(call.dims, kw)
               THEN call.err = "KeyError" /\ h5nodes = call.before
               ELSE /\ call.err = "ok"
                    /\ n.kind = "dataset"
                    /\ h5nodes = [call.before EXCEPT ![call.datapath] = n]
                    /\ n.shape = IF ~InSeq(Var, call.dims) THEN call.dims
                                 ELSE <<0>> \o Tail(call.dims)
                    /\ IF call.dims = <<>>
                       THEN n.maxshape = "none" /\ n.chunks = "none"
                       ELSE /\ n.maxshape = IF kw.maxshape = "unset"
                                            THEN "unlimited" ELSE kw.maxshape
                            /\ n.chunks = IF kw.chunks = "unset"
                                          THEN "auto" ELSE kw.chunks

\* C11 witness: a dataset with an unbounded outermost dimension and fixed
\* inner dimensions was created with the caller's own chunks
C11_Witness ==
    /\ call.op = "create" /\ call.err = "ok"
    /\ call.before[call.datapath].kind = "absent"
    /\ Len(call.dims) >= 2 /\ call.dims[1] = Var /\ ~InnerVar(call.dims)
    /\ call.kw.chunks = "caller" /\ call.kw.maxshape = "unset"
    /\ h5nodes[call.datapath].shape = <<0>> \o Tail(call.dims)

(***************************************************************************)
(* Further claims about the hierarchical-table backend (SpecHDFStore).      *)
(***************************************************************************)

\* C12: HDFStore on an existing container file declines foreign data: a file
\* without the format marker fails with NotImplementedError whatever the
\* datapath and dshape; a file with the marker whose node at the datapath
\* lacks the per-node marker fails with NotImplementedError; a stored table
\* handle is returned only when both markers are present.  On each failure
\* the store is closed and the file is as it was.
C12_ForeignDataDeclined ==
    (call.op = "open" /\ call.before.exists)
        => LET n == call.before.nodes[StripSlash(call.datapath)] IN
           /\ (~call.before.marker \/ (n.kind # "absent" /\ ~n.ptype))
                 => (/\ call.err = "NotImplementedError"
                     /\ ~store
                     /\ hfile = call.before)
           /\ (call.err = "ok" /\ tab.kind = "table")
                 => (call.before.marker /\ n.ptype)

(***************************************************************************)
(* The S3 backend as a state machine: a caller whose credentials live in   *)
(* the boto configuration and the environment opens connections and        *)
(* uploads local CSV files.                                                *)
(***************************************************************************)
MaxConnects == 2      \* distinct argument tuples get_s3_connection is called with

\* the credential sources when the process starts
CredSources ==
    { Creds(k, s) : k \in {None, "key"}, s \in {None, "secret"} }

\* contents of the local CSV files
Contents == { <<"a", LF>>, <<"a", LF, "a", LF>> }

\* the account's buckets when the process starts: b1 may exist, empty
InitBuckets ==
    { [b \in BucketNames |-> NoBucket],
      [b \in BucketNames |-> IF b = "b1" THEN [NoBucket EXCEPT !.exists = TRUE]
                             ELSE NoBucket] }

InitS3 ==
    /\ \E cfg \in CredSources, env \in CredSources, bs \in InitBuckets :
         s3 = [NoS3 EXCEPT !.cfg = cfg, !.env = env, !.buckets = bs]
    /\ call = Idle("none")
    /\ cseq = NoChunks
    /\ dset = Dataset(<<0>>, TRUE, 0, <<>>) /\ fopen = FALSE
    /\ hfile = NoFile /\ store = FALSE /\ tab = NoTable
    /\ h5nodes = NoNodes
    /\ dsk = NoDask

\* the cache of get_s3_connection has room for the arguments a
CacheAdmits(st, a) ==
    \/ st.memo[a] # NoConn
    \/ Cardinality({ b \in ConnArgs : st.memo[b] # NoConn }) < MaxConnects

\* the user exports a credential that the environment did not hold
ExportCredentials ==
    /\ call.op = "none"
    /\ \/ s3.env.key = None /\ s3' = [s3 EXCEPT !.env.key = "env-key"]
       \/ s3.env.secret = None /\ s3' = [s3 EXCEPT !.env.secret = "env-secret"]
    /\ UNCHANGED <<call, notaws>>

\* get_s3_connection(aws_access_key_id, aws_secret_access_key, anon)
Connect ==
    /\ call.op = "none"
    /\ \E a \in ConnArgs :
         /\ CacheAdmits(s3, a)
         /\ LET r == GetS3Connection(s3, a) IN
            /\ s3' = r.s3
            /\ call' = [op |-> "connect", args |-> a, conn |-> r.conn,
                        cached |-> r.cached]
    /\ UNCHANGED notaws

NextS3Conn ==
    \/ ExportCredentials
    \/ Connect
    \/ Return

SpecS3Conn == InitS3 /\ [][NextS3Conn]_vars

\* the value the documented order gives: the explicitly supplied argument,
\* else the configuration file, else the environment
Resolved(arg, cfg, env) ==
    CASE arg # None -> arg
      [] arg = None /\ cfg # None -> cfg
      [] OTHER -> env

\* C13: the connection carries, for the key and for the secret, the value of
\* the first source that supplies it (argument, configuration, environment);
\* it is anonymous exactly when neither a key nor a secret was found, for
\* either value of the caller's anon argument.
C13_CredentialsResolvedInOrder ==
    call.op = "connect"
        => LET k == Resolved(call.args.key, s3.cfg.key, s3.env.key)
               s == Resolved(call.args.secret, s3.cfg.secret, s3.env.secret)
           IN  /\ call.conn.key = k
               /\ call.conn.secret = s
               /\ call.conn.anon <=> (k = None /\ s = None)

(***************************************************************************)
(* Sampling a remote CSV object: the scope opened by sample(S3(CSV)), the  *)
(* reads made inside it (discover reads the file) and its exit.            *)
(***************************************************************************)
MaxObject == 4        \* bytes of a remote object
MaxLength == 3        \* the sample length asked for

Objects == UNION { SeqN(Bytes, n) : n \in 1..MaxObject }

InitSample ==
    /\ s3 = NoS3
    /\ call = Idle("none")
    /\ cseq = NoChunks
    /\ dset = Dataset(<<0>>, TRUE, 0, <<>>) /\ fopen = FALSE
    /\ hfile = NoFile /\ store = FALSE /\ tab = NoTable
    /\ h5nodes = NoNodes
    /\ dsk = NoDask

\* `with sample(data, length=length) as fn:` entered
SampleEnter ==
    /\ call.op = "none"
    /\ ~s3.scope
    /\ \E obj \in Objects, length \in 1..MaxLength :
         LET r == SampleS3Csv(obj, length) IN
         /\ s3' = [s3 EXCEPT !.tmp = r.tmp, !.scope = r.scope,
                             !.sampled = [obj |-> obj, length |-> length]]
         /\ call' = [op |-> "sample", obj |-> obj, length |-> length,
                     err |-> r.err]
    /\ UNCHANGED notaws

\* discover(CSV(fn)) inside the scope: the file is read, not changed
ReadSample ==
    /\ call.op = "none"
    /\ s3.scope
    /\ call' = [op |-> "read", exists |-> s3.tmp.exists,
                content |-> s3.tmp.content]
    /\ UNCHANGED <<s3, notaws>>

\* the with block is left: tmpfile removes the file
SampleExit ==
    /\ call.op = "none"
    /\ s3.scope
    /\ s3' = [s3 EXCEPT !.tmp = TmpfileExit(s3.tmp), !.scope = FALSE,
                        !.sampled = NoSample]
    /\ call' = [op |-> "sample_exit"]
    /\ UNCHANGED notaws

NextSample ==
    \/ SampleEnter
    \/ ReadSample
    \/ SampleExit
    \/ Return

SpecSample == InitSample /\ [][NextSample]_vars

\* byte k of the object (1-based) starts a line terminator
TerminatorAt(obj, k) ==
    /\ k <= Len(obj)
    /\ \/ obj[k] = LF
       \/ obj[k] = CR /\ k + 1 <= Len(obj) /\ obj[k + 1] = LF

\* C14: for an object of more than length bytes with a linefeed among its
\* first length bytes the sample is taken, and while the scope of any sample
\* of such a larger object is open the temporary file exists and holds a
\* prefix of the object that is at most length bytes long and ends exactly
\* where a line terminator of the object starts.
C14_SampleHoldsWholeLines ==
    /\ (/\ call.op = "sample"
        /\ Len(call.obj) > call.length
        /\ \E k \in 1..call.length : call.obj[k] = LF)
           => (call.err = "ok" /\ s3.scope)
    /\ (s3.scope /\ Len(s3.sampled.obj) > s3.sampled.length)
           => LET obj == s3.sampled.obj
                  w   == s3.tmp.content
              IN  /\ s3.tmp.exists
                  /\ Len(w) <= s3.sampled.length
                  /\ w = SubSeq(obj, 1, Len(w))
                  /\ TerminatorAt(obj, Len(w) + 1)

\* C14 witness: inside the scope, after a read, the file holds one whole
\* line of an object whose byte at position length is in the middle of the
\* second line
C14_Witness ==
    /\ s3.scope /\ call.op = "read"
    /\ call.exists /\ call.content = s3.tmp.content
    /\ Len(s3.sampled.obj) > s3.sampled.length
    /\ s3.tmp.content = <<"a">>
    /\ s3.sampled.length = 3
    /\ SubSeq(s3.sampled.obj, 1, 3) = <<"a", LF, "a">>

(***************************************************************************)
(* Uploading local CSV files to S3.                                        *)
(***************************************************************************)

\* convert(S3(CSV), csv, bucket_name=..., aws_access_key_id=...,
\* aws_secret_access_key=...)
Upload ==
    /\ call.op = "none"
    /\ \E path \in LocalPaths, content \in Contents,
          bucket_name \in BucketNames \cup {None},
          key \in {None, "arg-key"}, secret \in {None, "arg-secret"} :
         /\ CacheAdmits(s3, [key |-> key, secret |-> secret, anon |-> FALSE])
         /\ LET r == ConvertCsvToS3(s3, path, content, bucket_name, key, secret) IN
            /\ s3' = r.s3
            /\ call' = [op |-> "upload", path |-> path, content |-> content,
                        bucket_name |-> bucket_name, err |-> r.err,
                        result |-> r.result, uploaded |-> r.uploaded]
    /\ UNCHANGED notaws

NextS3Upload ==
    \/ Upload
    \/ Return

SpecS3Upload == InitS3 /\ [][NextS3Upload]_vars

\* C15: with a bucket name supplied the upload leaves the bucket in
\* existence, holding the local file's bytes under the file's base name, and
\* the call returns an S3(CSV) value for that bucket and key: it does not
\* fail once the upload is done.
C15_UploadReturnsS3Csv ==
    (call.op = "upload" /\ call.bucket_name # None)
        => /\ s3.buckets[call.bucket_name].exists
           /\ s3.buckets[call.bucket_name].keys[Basename(call.path)] = call.content
           /\ call.err = "ok"
           /\ call.result = [bucket |-> call.bucket_name,
                             key |-> Basename(call.path)]

(***************************************************************************)
(* The task-graph core (dask.core), as its specification and its tests     *)
(* describe it.  A task is a literal, a name (a key of the graph, or a     *)
(* literal string when the graph has no such key), a list of tasks or an   *)
(* application node: a callable and its argument tasks.                    *)
(***************************************************************************)
Task(t, n, k, xs) == [t |-> t, n |-> n, k |-> k, xs |-> xs]

Lit(n) == Task("lit", n, "", <<>>)
Ref(k) == Task("ref", 0, k, <<>>)
List(xs) == Task("list", 0, "", xs)
App(f, xs) == Task("app", 0, f, xs)

\* istask(x): an application node
IsTask(x) == x.t = "app"

\* values: integers, booleans, strings, lists of values and iterators over
\* values; Err is the exception that ended an evaluation.  A string is held
\* as the sequence of the names it was put together from, so that + on
\* strings is concatenation.  A boolean counts as 0 or 1 in arithmetic.
IntV(n) == Task("int", n, "", <<>>)
BoolV(b) == Task("bool", IF b THEN 1 ELSE 0, "", <<>>)
StrV(s) == Task("str", 0, "", s)
ListV(xs) == Task("listv", 0, "", xs)
IterV(xs) == Task("iterv", 0, "", xs)
Err(e) == Task("err", 0, e, <<>>)

IsErr(v) == v.t = "err"

\* the first error among the values vs, or the values themselves
FirstErr(vs) ==
    LET bad == { i \in 1..Len(vs) : IsErr(vs[i]) } IN
    IF bad = {} THEN ListV(vs)
    ELSE vs[CHOOSE i \in bad : \A j \in bad : i <= j]

\* x + y: integers and booleans add, strings and lists concatenate, anything
\* else (an iterator among them) is a TypeError
PyAdd(x, y) ==
    CASE x.t \in {"int", "bool"} /\ y.t \in {"int", "bool"} -> IntV(x.n + y.n)
      [] x.t = "str" /\ y.t = "str" -> StrV(x.xs \o y.xs)
      [] x.t = "listv" /\ y.t = "listv" -> ListV(x.xs \o y.xs)
      [] OTHER -> Err("TypeError")

\* the builtin sum's loop: start + xs[1] + xs[2] + ...
RECURSIVE PySumFrom(_, _)
PySumFrom(acc, xs) ==
    IF IsErr(acc) \/ xs = <<>> THEN acc
    ELSE PySumFrom(PyAdd(acc, Head(xs)), Tail(xs))

\* sum(iterable, start): a string start is refused, a value that is no
\* iterable is a TypeError, the elements of a string are strings
PySum(xs, start) ==
    CASE start.t = "str" -> Err("TypeError")
      [] xs.t \in {"listv", "iterv"} -> PySumFrom(start, xs.xs)
      [] xs.t = "str" -> PySumFrom(start, [i \in 1..Len(xs.xs) |-> StrV(<<xs.xs[i]>>)])
      [] OTHER -> Err("TypeError")

\* the callables of the tests: inc(x) = x + 1, add(x, y) = x + y, the
\* builtin sum, isconcrete(arg) = isinstance(arg, list); a call with the
\* wrong number of arguments is a TypeError
Apply(f, vs) ==
    CASE f = "inc" /\ Len(vs) = 1 -> PyAdd(vs[1], IntV(1))
      [] f = "add" /\ Len(vs) = 2 -> PyAdd(vs[1], vs[2])
      [] f = "isconcrete" /\ Len(vs) = 1 -> BoolV(vs[1].t = "listv")
      [] f = "sum" /\ Len(vs) = 1 -> PySum(vs[1], IntV(0))
      [] f = "sum" /\ Len(vs) = 2 -> PySum(vs[1], vs[2])
      [] OTHER -> Err("TypeError")

\* an evaluator that answers with a value when it meets a cycle
CycleFoundSilently == IntV(0)

\* a key that is met again while it is being resolved: the explicit "cycle
\* or too deep" RuntimeError
CycleFound == Err("RuntimeError")

\* an evaluator that hands a list argument to the callable as a list
PassListConcrete(vs) == vs

\* what a callable receives for a list among its arguments: the resolved
\* elements behind an iterator, not a list (test_get_laziness: a callable
\* that asks isinstance(arg, list) answers False)
PassList(vs) == IF IsErr(vs) THEN vs ELSE IterV(vs.xs)

\* get(graph, task) while the keys of path are being resolved: a name that
\* is a key resolves to the value of its task, a list of keys element-wise
\* to a list, an application node by resolving its arguments in order and
\* applying the callable; anything else is a literal.  A list among the
\* arguments of an application node, and every list nested in it, is
\* resolved element-wise and passed as an iterator.  A chain of
\* dependencies of any length is resolved; a key that depends on itself
\* ends in RuntimeError.  Arguments are resolved left to right and the
\* first error ends the evaluation.
RECURSIVE GetOn(_, _, _), GetAllOn(_, _, _), GetArgOn(_, _, _), GetArgsOn(_, _, _)
GetOn(g, t, path) ==
    CASE t.t = "lit" -> IntV(t.n)
      [] t.t = "ref" -> IF t.k \notin DOMAIN g THEN StrV(<<t.k>>)
                        ELSE IF t.k \in path THEN CycleFound
                        ELSE GetOn(g, g[t.k], path \cup {t.k})
      [] t.t = "list" -> FirstErr(GetAllOn(g, t.xs, path))
      [] t.t = "app" -> LET vs == FirstErr(GetArgsOn(g, t.xs, path)) IN
                        IF IsErr(vs) THEN vs ELSE Apply(t.k, vs.xs)

GetAllOn(g, ts, path) ==
    IF ts = <<>> THEN <<>>
    ELSE LET v == GetOn(g, Head(ts), path) IN
         IF IsErr(v) THEN <<v>> ELSE <<v>> \o GetAllOn(g, Tail(ts), path)

\* one argument of an application node
GetArgOn(g, t, path) ==
    IF t.t = "list" THEN PassList(FirstErr(GetArgsOn(g, t.xs, path)))
    ELSE GetOn(g, t, path)

GetArgsOn(g, ts, path) ==
    IF ts = <<>> THEN <<>>
    ELSE LET v == GetArgOn(g, Head(ts), path) IN
         IF IsErr(v) THEN <<v>> ELSE <<v>> \o GetArgsOn(g, Tail(ts), path)

\* an evaluator that takes every key of the graph to be in resolution
GetAllInResolution(g, keys) == GetOn(g, keys, DOMAIN g)

\* get(graph, keys): keys is a key or a nested list of keys
Get(g, keys) == GetOn(g, keys, {})

\* the key occurrences in a task, in order, nested lists and nested
\* application nodes included
RECURSIVE DepsList(_, _), DepsListAll(_, _)
DepsList(g, t) ==
    CASE t.t = "ref" -> IF t.k \in DOMAIN g THEN <<t.k>> ELSE <<>>
      [] t.t \in {"list", "app"} -> DepsListAll(g, t.xs)
      [] OTHER -> <<>>

DepsListAll(g, ts) ==
    IF ts = <<>> THEN <<>> ELSE DepsList(g, Head(ts)) \o DepsListAll(g, Tail(ts))

\* get_dependencies(graph, key): the distinct keys the task at key names
GetDependencies(g, key) ==
    LET l == DepsList(g, g[key]) IN { l[i] : i \in 1..Len(l) }

\* the keys reachable from the keys of S through dependencies, S included
RECURSIVE Closure(_, _)
Closure(g, S) ==
    LET S2 == S \cup UNION { GetDependencies(g, k) : k \in S } IN
    IF S2 = S THEN S ELSE Closure(g, S2)

\* the keys key transitively depends on
Requires(g, key) == Closure(g, GetDependencies(g, key))

\* key depends, directly or transitively, on itself
OnCycle(g, key) == key \in Requires(g, key)

\* key, or a key it transitively depends on, is on a cycle
ReachesCycle(g, key) == \E k \in {key} \cup Requires(g, key) : OnCycle(g, k)

Acyclic(g) == \A k \in DOMAIN g : ~OnCycle(g, k)

\* the value of a task whose keys all have their value in env already:
\* literals are substituted into application nodes, no graph lookup is made.
\* inarg tells a task that stands in a list among the arguments of an
\* application node; lazy tells whether such a list is valued as an iterator
\* (as get passes it) or as a list.
RECURSIVE ValueOf(_, _, _, _), ValuesOf(_, _, _, _)
ValueOf(env, t, inarg, lazy) ==
    CASE t.t = "lit" -> IntV(t.n)
      [] t.t = "ref" -> IF t.k \in DOMAIN env THEN env[t.k] ELSE StrV(<<t.k>>)
      [] t.t = "list" -> LET vs == FirstErr(ValuesOf(env, t.xs, inarg, lazy)) IN
                         IF IsErr(vs) \/ ~(inarg /\ lazy) THEN vs
                         ELSE IterV(vs.xs)
      [] t.t = "app" -> LET vs == FirstErr(ValuesOf(env, t.xs, TRUE, lazy)) IN
                        IF IsErr(vs) THEN vs ELSE Apply(t.k, vs.xs)

ValuesOf(env, ts, inarg, lazy) ==
    IF ts = <<>> THEN <<>>
    ELSE LET v == ValueOf(env, Head(ts), inarg, lazy) IN
         IF IsErr(v) THEN <<v>>
         ELSE <<v>> \o ValuesOf(env, Tail(ts), inarg, lazy)

\* bottom-up evaluation: starting from no values, every key all of whose
\* dependencies have a value gets the value of its task, until no key is
\* left that can be valued (the keys that reach a cycle never are)
RECURSIVE BottomUpFrom(_, _, _)
BottomUpFrom(g, env, lazy) ==
    LET ready == { k \in DOMAIN g \ DOMAIN env :
                     GetDependencies(g, k) \subseteq DOMAIN env }
    IN  IF ready = {} THEN env
        ELSE BottomUpFrom(g, [k \in DOMAIN env \cup ready |->
                                IF k \in DOMAIN env THEN env[k]
                                ELSE ValueOf(env, g[k], FALSE, lazy)],
                          lazy)

\* bottom-up with every list valued as a list
ConcreteValue(g, t) ==
    ValueOf(BottomUpFrom(g, [k \in {} |-> IntV(0)], FALSE), t, FALSE, FALSE)

\* bottom-up with the lists among arguments valued as iterators
ValueIn(env, t) == ValueOf(env, t, FALSE, TRUE)

BottomUp(g) == BottomUpFrom(g, [k \in {} |-> IntV(0)], TRUE)

\* subs(task, key, value): every occurrence of key in task replaced by value
RECURSIVE Subs(_, _, _)
Subs(t, key, val) ==
    CASE t.t = "ref" -> IF t.k = key THEN val ELSE t
      [] t.t \in {"list", "app"} ->
            [t EXCEPT !.xs = [i \in 1..Len(t.xs) |-> Subs(t.xs[i], key, val)]]
      [] OTHER -> t

\* how often the key c is named in the tasks of the graph
Occurrences(g, c) ==
    Cardinality(UNION { { <<p, i>> : i \in { j \in 1..Len(DepsList(g, g[p])) :
                                               DepsList(g, g[p])[j] = c } } :
                        p \in DOMAIN g })

\* a fusion that looks at the dependent only and not at the other
\* dependents of the dependency
CanFuseAnyChild(g, c, p) ==
    /\ Len(DepsList(g, g[p])) = 1
    /\ DepsList(g, g[p])[1] = c

\* the link c -> p of a linear chain: c is the one key the task of p names
\* and no other place in the graph names c
CanFuse(g, c, p) ==
    /\ Len(DepsList(g, g[p])) = 1
    /\ DepsList(g, g[p])[1] = c
    /\ Occurrences(g, c) = 1

\* the keys fusion eliminates
FusedAway(g) == { c \in DOMAIN g : \E p \in DOMAIN g : CanFuse(g, c, p) }

\* the task of p with the chain below it inlined
RECURSIVE FuseInto(_, _)
FuseInto(g, p) ==
    LET deps == DepsList(g, g[p]) IN
    IF Len(deps) = 1 /\ CanFuse(g, deps[1], p)
    THEN Subs(g[p], deps[1], FuseInto(g, deps[1]))
    ELSE g[p]

\* fuse(graph)
Fuse(g) == [k \in DOMAIN g \ FusedAway(g) |-> FuseInto(g, k)]

\* flatten(keys): the keys a key form names
RECURSIVE KeysOf(_)
KeysOf(t) ==
    IF t.t = "ref" THEN {t.k}
    ELSE UNION { KeysOf(t.xs[i]) : i \in 1..Len(t.xs) }

\* a cull that keeps the requested keys and the keys they name directly
CullDirect(g, keys) ==
    LET wanted == KeysOf(keys) IN
    IF ~(wanted \subseteq DOMAIN g) THEN [err |-> "KeyError", g |-> g]
    ELSE [err |-> "ok",
          g |-> [k \in wanted \cup UNION { GetDependencies(g, j) : j \in wanted }
                   |-> g[k]]]

\* cull(graph, keys): keys is flattened; a requested key the graph does not
\* hold raises KeyError; the result maps the requested keys and every key
\* they transitively depend on to their tasks
Cull(g, keys) ==
    LET wanted == KeysOf(keys) IN
    IF ~(wanted \subseteq DOMAIN g) THEN [err |-> "KeyError", g |-> g]
    ELSE [err |-> "ok", g |-> [k \in Closure(g, wanted) |-> g[k]]]

(***************************************************************************)
(* The task-graph core as a state machine: a caller holding one graph      *)
(* evaluates keys of it.                                                   *)
(***************************************************************************)
Names == {"x", "y", "z"}

ChainLinks == 8     \* links of the dependency chain

Refs == { Ref(k) : k \in Names }

\* the tasks of the small graphs: every name is a key of the graph and
\* every callable gets integer arguments
SmallTasks ==
    {Lit(1)} \cup Refs
    \cup { App("inc", <<a>>) : a \in Refs }
    \cup { App("add", <<a, b>>) : a \in Refs, b \in Refs }
    \cup { App("add", <<a, Lit(10)>>) : a \in Refs }
    \cup { App("add", <<App("inc", <<a>>), Ref("y")>>) : a \in Refs }
    \cup { App("sum", <<List(<<Ref("x"), b>>)>>) : b \in Refs }
    \cup { App("isconcrete", <<List(<<Ref("x"), b>>)>>) : b \in Refs }

\* the graph of test_get
TestGetGraph ==
    [k \in {":x", ":y", ":z"} |->
        CASE k = ":x" -> Lit(1)
          [] k = ":y" -> App("inc", <<Ref(":x")>>)
          [] k = ":z" -> App("add", <<Ref(":x"), Ref(":y")>>)]

\* the graph of test_get_laziness
TestLazinessGraph ==
    [k \in Names |->
        CASE k = "x" -> Lit(1)
          [] k = "y" -> Lit(2)
          [] k = "z" -> App("isconcrete", <<List(<<Ref("x"), Ref("y")>>)>>)]

\* the chain of test_get_stack_limit, x0 = 0 and x(i+1) = inc(xi), of
\* ChainLinks links, whole and with the cycle the test puts in at its middle
\* key: x4 = inc(x5)
ChainKeyOf ==
    [i \in 0..ChainLinks |->
        CASE i = 0 -> "x0" [] i = 1 -> "x1" [] i = 2 -> "x2" [] i = 3 -> "x3"
          [] i = 4 -> "x4" [] i = 5 -> "x5" [] i = 6 -> "x6" [] i = 7 -> "x7"
          [] i = 8 -> "x8" [] OTHER -> "x9"]

ChainKeys == { ChainKeyOf[i] : i \in 0..ChainLinks }

Pred(k) == ChainKeyOf[(CHOOSE i \in 1..ChainLinks : ChainKeyOf[i] = k) - 1]

ChainGraph ==
    [k \in ChainKeys |-> IF k = "x0" THEN Lit(0) ELSE App("inc", <<Ref(Pred(k))>>)]

CycleChainGraph == [ChainGraph EXCEPT !["x4"] = App("inc", <<Ref("x5")>>)]

\* the first and the fourth graph of test_fuse and what the test expects
\* fuse to make of them
FuseChainGraph ==
    [k \in {"w", "x", "y", "z", "a", "b"} |->
        CASE k = "w" -> App("inc", <<Ref("x")>>)
          [] k = "x" -> App("inc", <<Ref("y")>>)
          [] k = "y" -> App("inc", <<Ref("z")>>)
          [] k = "z" -> App("add", <<Ref("a"), Ref("b")>>)
          [] k = "a" -> Lit(1)
          [] k = "b" -> Lit(2)]

FuseChainExpected ==
    [k \in {"w", "a", "b"} |->
        CASE k = "w" -> App("inc", <<App("inc", <<App("inc",
                            <<App("add", <<Ref("a"), Ref("b")>>)>>)>>)>>)
          [] k = "a" -> Lit(1)
          [] k = "b" -> Lit(2)]

FuseFanOutGraph ==
    [k \in {"a", "b", "c", "d", "x", "y"} |->
        CASE k = "a" -> App("inc", <<Ref("x")>>)
          [] k = "b" -> App("inc", <<Ref("x")>>)
          [] k = "c" -> App("inc", <<Ref("x")>>)
          [] k = "d" -> App("inc", <<Ref("c")>>)
          [] k = "x" -> App("inc", <<Ref("y")>>)
          [] k = "y" -> Lit(0)]

FuseFanOutExpected ==
    [k \in {"a", "b", "d", "x"} |->
        CASE k = "a" -> App("inc", <<Ref("x")>>)
          [] k = "b" -> App("inc", <<Ref("x")>>)
          [] k = "d" -> App("inc", <<App("inc", <<Ref("x")>>)>>)
          [] k = "x" -> App("inc", <<Lit(0)>>)]

\* the graph of test_cull
CullGraph ==
    [k \in {"x", "y", "z", "out"} |->
        CASE k = "x" -> Lit(1)
          [] k = "y" -> App("inc", <<Ref("x")>>)
          [] k = "z" -> App("inc", <<Ref("x")>>)
          [] k = "out" -> App("add", <<Ref("y"), Lit(10)>>)]

Graphs ==
    [Names -> SmallTasks]
    \cup {TestGetGraph, TestLazinessGraph, ChainGraph, CycleChainGraph, FuseChainGraph,
          FuseFanOutGraph, CullGraph}

Holding(g) == [kind |-> "graph", g |-> g]

\* the forms of `keys` callers pass to get: a key, a name that is no key,
\* a flat list, a nested list
KeyForms(g) ==
    { Ref(k) : k \in DOMAIN g } \cup {Ref("q")}
    \cup { List(<<Ref(a), Ref(b)>>) : a \in DOMAIN g \cap {"x", ":x", "x8"},
                                       b \in DOMAIN g \cap {"y", ":y", "x3"} }
    \cup { List(<<List(<<Ref(a)>>), Ref(b)>>) :
              a \in DOMAIN g \cap {"x", ":x", "x8"},
              b \in DOMAIN g \cap {"y", ":y", "x3"} }

InitDask ==
    /\ dsk \in { Holding(g) : g \in Graphs }
    /\ call = Idle("none")
    /\ cseq = NoChunks
    /\ dset = Dataset(<<0>>, TRUE, 0, <<>>) /\ fopen = FALSE
    /\ hfile = NoFile /\ store = FALSE /\ tab = NoTable
    /\ h5nodes = NoNodes
    /\ s3 = NoS3

\* get(dsk, keys)
GetKeys ==
    /\ call.op = "none"
    /\ \E keys \in KeyForms(dsk.g) :
         call' = [op |-> "get", keys |-> keys, out |-> Get(dsk.g, keys)]
    /\ UNCHANGED <<dsk, notdask>>

NextDaskGet ==
    \/ GetKeys
    \/ Return

SpecDaskGet == InitDask /\ [][NextDaskGet]_vars

\* C16 as stated: on an acyclic graph get(graph, keys) is the value of
\* bottom-up evaluation in which a key gets the value of its task, an
\* application node its callable applied to the values of its arguments, a
\* list, wherever it stands, the list of the values of its elements, a name
\* that is no key itself; a nested list of keys gives the same nesting of
\* values.
C16_GetIsConcreteBottomUpValue ==
    (call.op = "get" /\ Acyclic(dsk.g))
        => call.out = ConcreteValue(dsk.g, call.keys)

\* C16: on an acyclic graph get(graph, keys) is the value of bottom-up
\* evaluation in which a key gets the value of its task, an application
\* node its callable applied to the values of its arguments, a list among
\* the arguments of an application node an iterator over the values of its
\* elements (no list), a name that is no key itself; a list or nested list
\* of keys given as `keys` gives the same nesting of lists of values.
C16_GetIsBottomUpValue ==
    (call.op = "get" /\ Acyclic(dsk.g))
        => call.out = ValueIn(BottomUp(dsk.g), call.keys)

\* C16 witness: on the graph of test_get_laziness, the application node
\* whose callable asks whether its argument is a list was evaluated and
\* answered that it is none
C16_Witness ==
    /\ call.op = "get" /\ Acyclic(dsk.g)
    /\ dsk.g = TestLazinessGraph
    /\ call.keys = Ref("z")
    /\ call.out = BoolV(FALSE)
    /\ Get(dsk.g, List(<<Ref("x"), Ref("y")>>)) = ListV(<<IntV(1), IntV(2)>>)

\* C17: get of keys one of which reaches a cycle ends in RuntimeError (it
\* yields no value); get of keys none of which reaches the cycle yields
\* their bottom-up value, in the same graph.
C17_CycleEndsInRuntimeError ==
    (call.op = "get" /\ ~Acyclic(dsk.g))
        => IF \E k \in KeysOf(call.keys) \cap DOMAIN dsk.g : ReachesCycle(dsk.g, k)
           THEN call.out = Err("RuntimeError")
           ELSE call.out = ValueIn(BottomUp(dsk.g), call.keys)

\* C17 witness: in the chain with a cycle, the key below the cycle has its
\* value
C17_Witness ==
    /\ call.op = "get" /\ dsk.g = CycleChainGraph
    /\ call.keys = Ref("x3")
    /\ call.out = IntV(3)

(***************************************************************************)
(* Fusion: the caller replaces its graph by the fused graph and goes on    *)
(* evaluating.  Fusion is applied to graphs without a cycle.               *)
(***************************************************************************)

\* dsk = fuse(dsk)
FuseGraph ==
    /\ call.op = "none"
    /\ Acyclic(dsk.g)
    /\ dsk' = Holding(Fuse(dsk.g))
    /\ call' = [op |-> "fuse", before |-> dsk.g]
    /\ UNCHANGED notdask

NextDaskFuse ==
    \/ FuseGraph
    \/ GetKeys
    \/ Return

SpecDaskFuse == InitDask /\ [][NextDaskFuse]_vars

\* the keys whose task names k
Consumers(g, k) == { p \in DOMAIN g : k \in GetDependencies(g, p) }

\* C18: after fuse on an acyclic graph every surviving key has the value it
\* had in the original graph, every key without a consumer in the original
\* graph survives, and so does every key with two or more distinct
\* dependent keys.
C18_FuseKeepsValues ==
    call.op = "fuse"
        => /\ DOMAIN dsk.g \subseteq DOMAIN call.before
           /\ \A k \in DOMAIN dsk.g :
                 Get(dsk.g, Ref(k)) = Get(call.before, Ref(k))
           /\ \A k \in DOMAIN call.before :
                 (Consumers(call.before, k) = {} \/
                  Cardinality(Consumers(call.before, k)) >= 2)
                     => k \in DOMAIN dsk.g

\* C18 witness: the fan-out graph of test_fuse was fused into the graph the
\* test expects: x, with three dependents, survives, c and y are inlined
C18_Witness ==
    /\ call.op = "fuse"
    /\ call.before = FuseFanOutGraph
    /\ dsk.g = FuseFanOutExpected

(***************************************************************************)
(* Culling: the caller replaces its graph by the culled graph.             *)
(***************************************************************************)

\* the keys of S as a flat list, in some order
RECURSIVE FlatList(_)
FlatList(S) ==
    IF S = {} THEN <<>>
    ELSE LET k == CHOOSE j \in S : TRUE IN <<Ref(k)>> \o FlatList(S \ {k})

\* the keys no task of the graph names
OutputKeys(g) == { k \in DOMAIN g : Consumers(g, k) = {} }

\* the forms of `keys` callers pass to cull: a key, the flat list of it, a
\* flat list and a nested list of two keys, a key the graph does not hold,
\* the list of all output keys
CullForms(g) ==
    { Ref(k) : k \in DOMAIN g } \cup {Ref("badkey")}
    \cup { List(<<Ref(k)>>) : k \in DOMAIN g }
    \cup { List(<<Ref(a), Ref(b)>>) : a \in DOMAIN g \cap {"x", "out"},
                                       b \in DOMAIN g \cap {"y", "z"} }
    \cup { List(<<List(<<Ref(a)>>), List(<<Ref(b)>>)>>) :
              a \in DOMAIN g \cap {"x", "out"}, b \in DOMAIN g \cap {"y", "z"} }
    \cup { List(FlatList(OutputKeys(g))) }

\* dsk = cull(dsk, keys)
CullKeys ==
    /\ call.op = "none"
    /\ \E keys \in CullForms(dsk.g) :
         LET r == Cull(dsk.g, keys) IN
         /\ dsk' = Holding(r.g)
         /\ call' = [op |-> "cull", keys |-> keys, before |-> dsk.g,
                     err |-> r.err]
    /\ UNCHANGED notdask

NextDaskCull ==
    \/ CullKeys
    \/ GetKeys
    \/ Return

SpecDaskCull == InitDask /\ [][NextDaskCull]_vars

\* what every cull gives, whatever the graph: KeyError exactly for a
\* requested key the graph does not hold; otherwise the restriction of the
\* graph to the requested keys and the keys they transitively depend on,
\* the same for every form of keys that names the same keys
CullIsRestriction ==
    LET wanted == KeysOf(call.keys) IN
    IF ~(wanted \subseteq DOMAIN call.before)
    THEN call.err = "KeyError" /\ dsk.g = call.before
    ELSE /\ call.err = "ok"
         /\ DOMAIN dsk.g = wanted \cup UNION { Requires(call.before, k) : k \in wanted }
         /\ \A k \in DOMAIN dsk.g : dsk.g[k] = call.before[k]
         /\ \A f \in CullForms(call.before) :
               KeysOf(f) = wanted => Cull(call.before, f).g = dsk.g

\* C19 as stated: cull gives the restriction to the requested keys and
\* their transitive dependencies, alike for a single key, a flat and a
\* nested list, KeyError for a key not in the graph, and culling on all
\* output keys returns the original graph, for every graph.
C19_CullOnOutputsIsIdentity ==
    call.op = "cull"
        => /\ CullIsRestriction
           /\ KeysOf(call.keys) = OutputKeys(call.before) => dsk.g = call.before

\* C19 amended: as stated, but culling on all output keys returns the
\* original graph when the graph is acyclic; in a graph with a cycle the
\* keys that no output key depends on are dropped.
C19_CullOnOutputsOfAcyclic ==
    call.op = "cull"
        => /\ CullIsRestriction
           /\ (KeysOf(call.keys) = OutputKeys(call.before) /\ Acyclic(call.before))
                 => dsk.g = call.before

\* C19 witness: the graph of test_cull culled on the nested list of its two
\* output keys is the whole graph
C19_Witness ==
    /\ call.op = "cull" /\ call.err = "ok"
    /\ call.before = CullGraph
    /\ call.keys = List(<<List(<<Ref("out")>>), List(<<Ref("z")>>)>>)
    /\ dsk.g = CullGraph

(***************************************************************************)
(* resource_h5py: a URI, an optional datapath and an optional datashape.   *)
(* A datapath is the string the caller passes, held as its sequence of     *)
(* characters; a node of the file is named by the sequence of the names on *)
(* the way to it, which is what h5py resolves '/a/b', 'a/b' and '//a/b'    *)
(* to.  A datashape is an array datashape (its dimensions) or a record of  *)
(* one field.                                                              *)
(***************************************************************************)
MaxSegments == 2    \* names in a datapath

Slash == "/"
SegmentNames == {<<"a">>, <<"b">>}

\* the nodes a file of the model can hold
NodePaths == UNION { [1..n -> SegmentNames] : n \in 1..MaxSegments }

\* '/'.join(names), with a leading slash or without
RECURSIVE JoinPath(_)
JoinPath(p) ==
    IF Len(p) = 1 THEN p[1] ELSE p[1] \o <<Slash>> \o JoinPath(Tail(p))

DataPathStrings ==
    { JoinPath(p) : p \in NodePaths } \cup { <<Slash>> \o JoinPath(p) : p \in NodePaths }

\* the node h5py resolves a datapath to: its non-empty names in order
RECURSIVE Resolve(_)
Resolve(s) ==
    LET i == RIndex(s, <<Slash>>) IN
    IF s = <<>> THEN <<>>
    ELSE IF i = -1 THEN <<s>>
    ELSE LET name == SubSeq(s, i + 2, Len(s)) IN
         Resolve(SubSeq(s, 1, i)) \o (IF name = <<>> THEN <<>> ELSE <<name>>)

\* datapath=None and dshape=None
NoDatapath == <<None>>
NoDshape == [t |-> "none"]

ArrayDshape(dims) == [t |-> "array", dims |-> dims]

\* Record([[name, ds]])
Record(name, ds) == [t |-> "record", name |-> name, ds |-> ds]

\* datapath.rsplit('/', 1): the text before the last slash and the text
\* after it, or the whole text alone when it holds no slash
RSplit(s) ==
    LET i == RIndex(s, <<Slash>>) IN
    IF i = -1 THEN <<s>>
    ELSE <<SubSeq(s, 1, i), SubSeq(s, i + 2, Len(s))>>

\* while ds and datapath: datapath, name = datapath.rsplit('/', 1);
\* ds = Record([[name, ds]]).  A datashape is never falsy; unpacking a
\* one-element list into two names raises ValueError.
RECURSIVE WrapDshape(_, _)
WrapDshape(datapath, ds) ==
    IF datapath = <<>> THEN [err |-> "ok", ds |-> ds]
    ELSE LET parts == RSplit(datapath) IN
         IF Len(parts) # 2 THEN [err |-> "ValueError", ds |-> ds]
         ELSE WrapDshape(parts[1], Record(parts[2], ds))

\* create_from_datashape(group, ds, **kwargs): ds must be a record; a field
\* that is a record becomes a group (require_group raises TypeError on a
\* dataset of that name), any other field a dataset
RECURSIVE CreateFromDatashape(_, _, _, _)
CreateFromDatashape(nodes, group, ds, kw) ==
    IF ds.t # "record" THEN [nodes |-> nodes, err |-> "AssertionError"]
    ELSE LET p == Append(group, ds.name) IN
         IF ds.ds.t = "record"
         THEN IF nodes[p].kind = "dataset"
              THEN [nodes |-> nodes, err |-> "TypeError"]
              ELSE CreateFromDatashape(
                       [nodes EXCEPT ![p] = H5Node("group", <<>>, "none", "none")],
                       p, ds.ds, kw)
         ELSE DatasetFromDshape(nodes, p, ds.ds.dims, kw)

\* create(h5py.File, pathname, dshape, **kwargs): open the file and create
\* what the datashape names
Create(nodes, ds, kw) ==
    IF ds = NoDshape THEN [nodes |-> nodes, err |-> "ok"]
    ELSE CreateFromDatashape(nodes, <<>>, ds, kw)

HDFFile == [kind |-> "HDFFile"]
HDFTable(parent, datapath) == [kind |-> "HDFTable", parent |-> parent, datapath |-> datapath]
NoHandle == [kind |-> "none"]

\* resource_h5py(uri, datapath, dshape, **kwargs): the file's nodes after
\* the call, the datashape handed to create, the handle returned
ResourceH5py(nodes, datapath, dshape, kw) ==
    LET w == IF dshape # NoDshape /\ datapath # NoDatapath THEN WrapDshape(datapath, dshape)
             ELSE [err |-> "ok", ds |-> dshape]
        c == IF dshape # NoDshape /\ w.err = "ok" THEN Create(nodes, w.ds, kw)
             ELSE [nodes |-> nodes, err |-> w.err]
    IN  [nodes |-> c.nodes, err |-> c.err,
         created |-> IF w.err = "ok" THEN w.ds ELSE NoDshape,
         handle |-> IF c.err # "ok" THEN NoHandle
                    ELSE IF datapath # NoDatapath THEN HDFTable(HDFFile, datapath)
                    ELSE HDFFile]

\* drop(h) on a node: del h.file[h.name] unlinks the node and what is below
DropTree(nodes, p) ==
    [q \in DOMAIN nodes |->
        IF Len(q) >= Len(p) /\ SubSeq(q, 1, Len(p)) = p THEN H5Absent ELSE nodes[q]]

\* {s1: {s2: ... {sn: ds}}}
RECURSIVE Nest(_, _)
Nest(p, ds) == IF p = <<>> THEN ds ELSE Record(p[1], Nest(Tail(p), ds))

\* the array datashapes callers pass: unbounded rows, fixed rows, and one
\* that dataset_from_dshape rejects
ResourceArrays ==
    { ArrayDshape(<<Var>>), ArrayDshape(<<MaxExtent>>), ArrayDshape(<<MaxExtent, Var>>) }

ResourceKwargs == { [chunks |-> "unset", maxshape |-> "unset"] }

InitResource ==
    /\ h5nodes = [p \in NodePaths |-> H5Absent]
    /\ call = Idle("none")
    /\ cseq = NoChunks
    /\ dset = Dataset(<<0>>, TRUE, 0, <<>>) /\ fopen = FALSE
    /\ hfile = NoFile /\ store = FALSE /\ tab = NoTable
    /\ s3 = NoS3 /\ dsk = NoDask

\* resource(uri, datapath=..., dshape=...), with a datapath or without, with
\* an array datashape, a record datashape or none
OpenResource ==
    /\ call.op = "none"
    /\ \E datapath \in DataPathStrings \cup {NoDatapath},
          dshape \in ResourceArrays \cup {NoDshape}
                     \cup { Nest(p, a) : p \in NodePaths, a \in ResourceArrays },
          kw \in ResourceKwargs :
         LET r == ResourceH5py(h5nodes, datapath, dshape, kw) IN
         /\ (datapath # NoDatapath /\ dshape # NoDshape) => dshape \in ResourceArrays
         /\ h5nodes' = r.nodes
         /\ call' = [op |-> "resource", datapath |-> datapath, dshape |-> dshape,
                     before |-> h5nodes, err |-> r.err, created |-> r.created,
                     handle |-> r.handle]
    /\ UNCHANGED notcreate

\* drop(h) on a group or dataset of the file
DropResourceNode ==
    /\ call.op = "none"
    /\ \E p \in NodePaths :
         /\ h5nodes[p].kind # "absent"
         /\ h5nodes' = DropTree(h5nodes, p)
         /\ call' = [op |-> "drop", datapath |-> p]
    /\ UNCHANGED notcreate

NextResource ==
    \/ OpenResource
    \/ DropResourceNode
    \/ Return

SpecResource == InitResource /\ [][NextResource]_vars

\* nothing in the file stands in the way of a dataset at p
Free(nodes, p) ==
    /\ nodes[p].kind = "absent"
    /\ \A n \in 1..Len(p) - 1 : nodes[SubSeq(p, 1, n)].kind # "dataset"

\* C20: with a dshape and a datapath s1/.../sn, with a leading slash or
\* without, create is handed {s1: {... {sn: dshape}}}, the file then holds
\* the dataset at that datapath (when the dshape has a shape and nothing is
\* in its way) and the handle returned is scoped to the datapath; with a
\* dshape and no datapath create is handed the dshape itself and the handle
\* is scoped to the whole file.
C20_DshapeWrappedAlongDatapath ==
    (call.op = "resource" /\ call.dshape # NoDshape)
        => IF call.datapath # NoDatapath
           THEN LET p == Resolve(call.datapath) IN
                /\ call.created = Nest(p, call.dshape)
                /\ (Free(call.before, p) /\ DshapeShape(call.dshape.dims).err = "ok")
                      => /\ call.err = "ok"
                         /\ h5nodes[p].kind = "dataset"
                         /\ h5nodes[p].shape = DshapeShape(call.dshape.dims).shape
                         /\ call.handle = HDFTable(HDFFile, call.datapath)
           ELSE /\ call.created = call.dshape
                /\ call.err = "ok" => call.handle = HDFFile

\* the same for the datapaths that start with a slash
C20_LeadingSlashOnly ==
    (call.op = "resource" /\ call.dshape # NoDshape /\ call.datapath # NoDatapath
       /\ call.datapath[1] # Slash)
        \/ C20_DshapeWrappedAlongDatapath

(***************************************************************************)
(* The windows of the chunked conversion, checked under SpecH5py.          *)
(***************************************************************************)

\* the rows of the chunks, in the order the chunks were produced
RECURSIVE ConcatRows(_)
ConcatRows(c) == IF c = <<>> THEN <<>> ELSE Head(c).data \o ConcatRows(Tail(c))

\* C21: the chunks a conversion with a window of c >= 1 rows yields, when
\* it is traversed for the first time and the dataset keeps its rows from
\* the first chunk to the last, are consecutive windows of the dataset:
\* concatenated in order they are the rows of the dataset, every chunk but
\* the last has c rows, the last has between 1 and c rows, every chunk has
\* the dataset's trailing extents, and a dataset of 0 rows yields no chunk.
C21_ChunksAreConsecutiveWindows ==
    (call.op = "iterate" /\ ~call.resumed /\ ~call.moved /\ ~cseq.chunksize.half)
        => LET c == cseq.chunksize.whole IN
           /\ ConcatRows(call.out) = dset.data
           /\ \A i \in 1..Len(call.out) :
                 /\ Tail(call.out[i].shape) = Tail(dset.shape)
                 /\ i < Len(call.out) => PyLen(call.out[i]) = c
                 /\ i = Len(call.out) => PyLen(call.out[i]) \in 1..c
           /\ dset.shape[1] = 0 => call.out = <<>>

\* C21 witness: a dataset of more rows than one window, not a multiple of
\* the window, converted and traversed: full windows and a shorter last one
C21_Witness ==
    /\ call.op = "iterate" /\ ~call.resumed /\ ~call.moved /\ ~cseq.chunksize.half
    /\ cseq.chunksize.whole > 1
    /\ dset.shape[1] > cseq.chunksize.whole
    /\ Len(call.out) > 1
    /\ PyLen(call.out[Len(call.out)]) < cseq.chunksize.whole
====
